---- MODULE Spec2Model ----
(***************************************************************************)
(* MediQuery-RAG: the conversation graph (src/src/agents) and the          *)
(* structured interview engine (src/src/consultation), as state machines.  *)
(*                                                                         *)
(* Texts are sequences of characters; a character is written as a short    *)
(* ASCII token (the pinyin of the Chinese character, or the digit).        *)
(* Oracles (language model, vector store, web search, storage) are         *)
(* nondeterministic choices over the replies the code distinguishes,       *)
(* an exception being one of them.                                         *)
(***************************************************************************)
EXTENDS Integers, Sequences, FiniteSets, TLC

(***************************************************************************)
(* PART 1 - the conversation graph: one thread of the checkpointer         *)
(***************************************************************************)

VARIABLES
    pc,               \* the node about to run; "idle", "END", "aborted" between turns
    messages,         \* messages appended since this turn's input (messages[-1] is all a node reads)
    mode,             \* MedicalState.mode
    user_id,          \* MedicalState.user_id
    tool_output,      \* MedicalState.tool_output
    rag_output,       \* MedicalState.rag_output
    final_answer,     \* MedicalState.final_answer
    documents,        \* MedicalState.documents
    loop_step,        \* MedicalState.loop_step
    used_web_search,  \* MedicalState.used_web_search
    health_profile,   \* MedicalState.health_profile
    has_records,      \* profile_store: the user has stored health records
    steps,            \* supersteps of the running graph execution
    tlog              \* bookkeeping of the current turn (calls made, nodes run, grades)

gvars == <<pc, messages, mode, user_id, tool_output, rag_output, final_answer,
           documents, loop_step, used_web_search, health_profile, has_records,
           steps, tlog>>

\* the structured interview engine and the loop that drives it (PART 2)
VARIABLES
    llm,                     \* StructuredConsultation.llm is configured
    current_user,            \* StructuredConsultation.current_user (UserProfile)
    current_session,         \* StructuredConsultation.current_session (ConsultationSession)
    current_question_index,  \* StructuredConsultation.current_question_index
    saved_profile,           \* profile.json of the user
    saved_session,           \* sessions/<session_id>.json, NoSession until first saved
    ui,                      \* where run_health_advisor stands, and its bookkeeping
    last,                    \* what the last engine call returned and which oracles it asked
    iterations               \* steps run_health_advisor has taken since the user was identified

ivars == <<llm, current_user, current_session, current_question_index, saved_profile,
           saved_session, ui, last, iterations>>

vars == <<gvars, ivars>>

\* config.settings.MAX_RETRIEVAL_LOOPS (imported by agents/nodes.py; spec 4.2: observed value 3)
MAX_RETRIEVAL_LOOPS == 3

\* LangGraph's default recursion_limit: app.stream is called without one
RECURSION_LIMIT == 25

\* at most this many tool calls in one reply of the tool-calling oracle
MaxToolCalls == 2

None == "None"

\* ---------------------------------------------------------------- inputs

\* A user message, by the features detect_mode reads.
Message(marker, calc, digits, akw) ==
    [role |-> "human", science_marker |-> marker, calc_request |-> calc,
     has_numbers |-> digits, assessment_score |-> akw]

UserMessages ==
    { Message(FALSE, FALSE, FALSE, 0),     \* plain question
      Message(FALSE, TRUE, TRUE, 0),       \* "calculate ... 170 ... 70"
      Message(TRUE, TRUE, TRUE, 1) }       \* generated by the interview: "no calculation needed"

\* every combination of the features detect_mode reads
AllMessages ==
    { Message(marker, calc, digits, akw) :
        marker \in BOOLEAN, calc \in BOOLEAN, digits \in BOOLEAN, akw \in 0..1 }

\* the rewritten query carries no marker a later node reads
RewrittenQuery == [role |-> "human", science_marker |-> FALSE, calc_request |-> FALSE,
                   has_numbers |-> FALSE, assessment_score |-> 0]

AIMessage == [role |-> "ai", science_marker |-> FALSE, calc_request |-> FALSE,
              has_numbers |-> FALSE, assessment_score |-> 0]

\* the sentinel, an empty id, and an identified user
UserIds == {"anonymous", "", "u1"}

\* replies of vectorstore.similarity_search(k=4)
LocalResults == { <<>>, <<"kb1">>, <<"kb1", "kb2", "kb3">> }

\* replies of web_search_tool.invoke
WebResults == { <<>>, <<"web1">> }

\* replies of the grader, by what grade_documents looks for
GraderReplies == { "yes", "no", "unsure" }

\* one requested tool call: the tool computes, the tool raises, or no tool has that name
ToolCallKinds == { "ok", "raises", "unknown" }

RECURSIVE SeqsUpTo(_, _)
SeqsUpTo(S, n) ==
    IF n = 0 THEN { <<>> }
    ELSE LET shorter == SeqsUpTo(S, n - 1)
         IN  shorter \cup { Append(s, x) : s \in shorter, x \in S }

ToolCallLists == SeqsUpTo(ToolCallKinds, MaxToolCalls)

\* ---------------------------------------------------------------- pure functions

Last(s) == s[Len(s)]

\* mutant: the users for whom memory is used are all but the empty id
Known_Anonymous(uid) == uid # ""

\* router_node "if user_id and user_id != 'anonymous'", and the same test at the head of
\* extract_health_info and load_health_profile
Known(uid) == uid # "" /\ uid # "anonymous"

\* mutant: the science marker is not looked at
detect_mode_NoMarker(m) ==
    IF m.calc_request /\ (m.has_numbers \/ m.assessment_score > 0) THEN "assessment"
    ELSE "science"

\* core/utils.py detect_mode
detect_mode(m) ==
    IF m.science_marker THEN "science"
    ELSE IF m.calc_request /\ (m.has_numbers \/ m.assessment_score > 0) THEN "assessment"
    ELSE "science"

\* core/utils.py grade_documents, given the grader's reply (read only if docs is non-empty)
grade_documents(docs, reply) ==
    IF docs = <<>> THEN "no"
    ELSE IF reply = "yes" THEN "yes" ELSE "no"

\* agents/graph.py route_after_router
route_after_router(m) == IF m = "assessment" THEN "assessment_tool" ELSE "retrieve"

\* mutant: the ready decision is not routed to the summarizer
route_self_rag_NoReady(decision) ==
    IF decision = "go_web" THEN "web_search" ELSE "retrieve"

\* agents/graph.py route_self_rag
route_self_rag(decision) ==
    IF decision = "ready" THEN "summarizer"
    ELSE IF decision = "go_web" THEN "web_search"
    ELSE "retrieve"

\* one entry of tool_output per tool call that names a known tool
RECURSIVE ToolResults(_)
ToolResults(calls) ==
    IF calls = <<>> THEN <<>>
    ELSE LET rest == ToolResults(Tail(calls))
         IN  IF Head(calls) = "ok" THEN <<"result">> \o rest
             ELSE IF Head(calls) = "raises" THEN <<"calc_error">> \o rest
             ELSE rest

\* ---------------------------------------------------------------- bookkeeping

FreshLog == [trace |-> <<>>, grades |-> <<>>, local |-> 0, web |-> 0, grade |-> 0,
             rewrite |-> 0, synth |-> 0, extract |-> 0, load |-> 0, requested |-> 0,
             cause |-> None]

Ran(node)  == [tlog EXCEPT !.trace = Append(@, node)]
Runs(node) == Cardinality({ i \in 1..Len(tlog.trace) : tlog.trace[i] = node })

\* oracle calls of the retrieval loop made in this turn
OracleCalls == tlog.local + tlog.web + tlog.grade + tlog.rewrite + tlog.synth

InNode == pc \in {"router", "assessment_tool", "retrieve", "grade_loop",
                  "web_search", "summarizer"}

\* a node raised: its writes are lost, the thread keeps the last checkpoint
Abort(node, log) ==
    /\ pc' = "aborted"
    /\ tlog' = [log EXCEPT !.trace = Append(@, node), !.cause = "oracle"]
    /\ steps' = steps + 1
    /\ UNCHANGED <<messages, mode, user_id, tool_output, rag_output, final_answer,
                   documents, loop_step, used_web_search, health_profile>>

\* ---------------------------------------------------------------- the thread

InitGraph ==
    /\ pc = "idle"
    /\ messages = <<>>
    /\ mode = None
    /\ user_id = None
    /\ tool_output = <<>>
    /\ rag_output = ""
    /\ final_answer = None
    /\ documents = <<>>
    /\ loop_step = 0
    /\ used_web_search = FALSE
    /\ health_profile = ""
    /\ has_records \in BOOLEAN
    /\ steps = 0
    /\ tlog = FreshLog

\* run_science_qa / run_health_advisor: a new thread_id, nothing checkpointed under it
NewThread ==
    /\ pc \in {"END", "aborted"}
    /\ pc' = "idle"
    /\ messages' = <<>>
    /\ mode' = None
    /\ user_id' = None
    /\ tool_output' = <<>>
    /\ rag_output' = ""
    /\ final_answer' = None
    /\ documents' = <<>>
    /\ loop_step' = 0
    /\ used_web_search' = FALSE
    /\ health_profile' = ""
    /\ steps' = 0
    /\ tlog' = FreshLog
    /\ UNCHANGED has_records
    /\ UNCHANGED ivars

\* app.stream({"messages": [HumanMessage], "user_id": uid}, config): the input is
\* merged into the thread's checkpointed state and the graph runs from START.
\* Of messages only what this turn appends is kept: every node reads messages[-1] alone.
\* The advisor runs one turn per thread; the science loop runs them on one thread.
StartTurnWith(inputs) ==
    /\ \E uid \in UserIds, msg \in inputs :
        /\ \/ pc = "idle"
           \/ pc \in {"END", "aborted"} /\ user_id = "anonymous" /\ uid = "anonymous"
        /\ user_id' = uid
        /\ messages' = <<msg>>
    /\ pc' = "router"
    /\ steps' = 0
    /\ tlog' = FreshLog
    /\ UNCHANGED <<mode, tool_output, rag_output, final_answer, documents, loop_step,
                   used_web_search, health_profile, has_records>>
    /\ UNCHANGED ivars

StartTurn == StartTurnWith(UserMessages)

\* ---------------------------------------------------------------- the nodes

CanRun(node) == pc = node /\ steps < RECURSION_LIMIT

\* agents/nodes.py router_node
router_node ==
    /\ CanRun("router")
    /\ LET question == Last(messages)
           known    == Known(user_id)
       IN  \E ext \in {"raise", "malformed", "empty", "items"}, load \in {"ok", "raise"} :
             LET \* extract_health_info swallows every failure; only items are stored
                 records == IF known /\ ext = "items" THEN TRUE ELSE has_records
                 \* load counts the reads of the store: load_health_profile returns ""
                 \* for an empty id before it reads
                 log     == [tlog EXCEPT !.extract = IF known THEN 1 ELSE 0,
                                         !.load = IF known THEN 1 ELSE 0]
             IN  /\ ~known => ext = "empty"
                 /\ ~known => load = "ok"
                 /\ has_records' = records
                 /\ IF load = "raise"
                    THEN Abort("router", log)
                    ELSE /\ mode' = detect_mode(question)
                         /\ loop_step' = 0
                         /\ documents' = <<>>
                         /\ used_web_search' = FALSE
                         /\ health_profile' = IF known /\ records THEN "profile" ELSE ""
                         /\ pc' = route_after_router(detect_mode(question))
                         /\ steps' = steps + 1
                         /\ tlog' = [log EXCEPT !.trace = Append(@, "router")]
                         /\ UNCHANGED <<messages, user_id, tool_output, rag_output,
                                        final_answer>>
    /\ UNCHANGED ivars

\* agents/nodes.py assessment_tool_node
assessment_tool_node ==
    /\ CanRun("assessment_tool")
    /\ \/ Abort("assessment_tool", tlog)          \* llm_with_tools.invoke raises
       \/ \E calls \in ToolCallLists :
            /\ tool_output' = IF calls # <<>> THEN ToolResults(calls) ELSE <<"need_data">>
            /\ pc' = "retrieve"
            /\ steps' = steps + 1
            /\ tlog' = [Ran("assessment_tool") EXCEPT !.requested = Len(calls)]
            /\ UNCHANGED <<messages, mode, user_id, rag_output, final_answer, documents,
                           loop_step, used_web_search, health_profile>>
    /\ UNCHANGED has_records
    /\ UNCHANGED ivars

\* mutant: retrieve does not count the attempt
retrieve_node_NoCount ==
    /\ CanRun("retrieve")
    /\ LET log == [tlog EXCEPT !.local = @ + 1]
       IN  \/ Abort("retrieve", log)              \* similarity_search raises
           \/ \E docs \in LocalResults :
                /\ documents' = docs
                /\ loop_step' = loop_step
                /\ pc' = "grade_loop"
                /\ steps' = steps + 1
                /\ tlog' = [log EXCEPT !.trace = Append(@, "retrieve")]
                /\ UNCHANGED <<messages, mode, user_id, tool_output, rag_output,
                               final_answer, used_web_search, health_profile>>
    /\ UNCHANGED has_records
    /\ UNCHANGED ivars

\* agents/nodes.py retrieve_node
retrieve_node ==
    /\ CanRun("retrieve")
    /\ LET log == [tlog EXCEPT !.local = @ + 1]
       IN  \/ Abort("retrieve", log)              \* similarity_search raises
           \/ \E docs \in LocalResults :
                /\ documents' = docs
                /\ loop_step' = loop_step + 1
                /\ pc' = "grade_loop"
                /\ steps' = steps + 1
                /\ tlog' = [log EXCEPT !.trace = Append(@, "retrieve")]
                /\ UNCHANGED <<messages, mode, user_id, tool_output, rag_output,
                               final_answer, used_web_search, health_profile>>
    /\ UNCHANGED has_records
    /\ UNCHANGED ivars

\* agents/nodes.py web_search_node: a failed search becomes one placeholder document
web_search_node ==
    /\ CanRun("web_search")
    /\ \E raised \in BOOLEAN, res \in WebResults :
         /\ raised => res = <<>>
         /\ documents' = IF raised THEN <<"search_unavailable">> ELSE res
    /\ used_web_search' = TRUE
    /\ pc' = "grade_loop"
    /\ steps' = steps + 1
    /\ tlog' = [tlog EXCEPT !.web = @ + 1, !.trace = Append(@, "web_search")]
    /\ UNCHANGED <<messages, mode, user_id, tool_output, rag_output, final_answer,
                   loop_step, health_profile, has_records>>
    /\ UNCHANGED ivars

\* the answer of a synthesis call, tagged as the prompt tags its sources
Answer(forced) ==
    IF forced THEN "best_effort_answer"
    ELSE IF used_web_search THEN "answer_from_internet" ELSE "answer_from_knowledge_base"

\* agents/nodes.py grade_and_generate_node, followed by the conditional edge
grade_and_generate_node ==
    /\ CanRun("grade_loop")
    /\ \E reply \in GraderReplies \cup {"raise"}, next \in {"ok", "raise"} :
         LET asked == documents # <<>>            \* grade_documents calls the llm
             score == grade_documents(documents, reply)
             g     == [tlog EXCEPT !.grade = IF asked THEN @ + 1 ELSE @,
                                   !.grades = Append(@, score)]
             synth == score = "yes" \/ used_web_search
         IN  /\ ~asked => reply = "no"
             /\ IF asked /\ reply = "raise"
                THEN next = "ok" /\ Abort("grade_loop", [tlog EXCEPT !.grade = @ + 1])
                ELSE IF score = "yes" \/ loop_step >= MAX_RETRIEVAL_LOOPS
                THEN IF synth
                     THEN \* llm.invoke(prompt): the answer, or the forced best effort
                          IF next = "raise"
                          THEN Abort("grade_loop", [g EXCEPT !.synth = @ + 1])
                          ELSE /\ rag_output' = Answer(score # "yes")
                               /\ final_answer' = "ready"
                               /\ pc' = route_self_rag("ready")
                               /\ steps' = steps + 1
                               /\ tlog' = [g EXCEPT !.synth = @ + 1,
                                                    !.trace = Append(@, "grade_loop")]
                               /\ UNCHANGED <<messages, mode, user_id, tool_output,
                                              documents, loop_step, used_web_search,
                                              health_profile>>
                     ELSE /\ next = "ok"
                          /\ final_answer' = "go_web"
                          /\ pc' = route_self_rag("go_web")
                          /\ steps' = steps + 1
                          /\ tlog' = [g EXCEPT !.trace = Append(@, "grade_loop")]
                          /\ UNCHANGED <<messages, mode, user_id, tool_output, rag_output,
                                         documents, loop_step, used_web_search,
                                         health_profile>>
                ELSE \* rewrite_query: only messages is written, final_answer is not
                     IF next = "raise"
                     THEN Abort("grade_loop", [g EXCEPT !.rewrite = @ + 1])
                     ELSE /\ messages' = Append(messages, RewrittenQuery)
                          /\ pc' = route_self_rag(final_answer)
                          /\ steps' = steps + 1
                          /\ tlog' = [g EXCEPT !.rewrite = @ + 1,
                                               !.trace = Append(@, "grade_loop")]
                          /\ UNCHANGED <<mode, user_id, tool_output, rag_output,
                                         final_answer, documents, loop_step,
                                         used_web_search, health_profile>>
    /\ UNCHANGED has_records
    /\ UNCHANGED ivars

\* agents/nodes.py summarizer_node: formatting only, no oracle
summarizer_node ==
    /\ CanRun("summarizer")
    /\ final_answer' = "final_text"
    /\ messages' = Append(messages, AIMessage)
    /\ pc' = "END"
    /\ steps' = steps + 1
    /\ tlog' = Ran("summarizer")
    /\ UNCHANGED <<mode, user_id, tool_output, rag_output, documents, loop_step,
                   used_web_search, health_profile, has_records>>
    /\ UNCHANGED ivars

\* the graph runtime gives up (GraphRecursionError) once recursion_limit supersteps ran
RecursionAbort ==
    /\ InNode
    /\ steps >= RECURSION_LIMIT
    /\ pc' = "aborted"
    /\ tlog' = [tlog EXCEPT !.cause = "recursion"]
    /\ UNCHANGED <<messages, mode, user_id, tool_output, rag_output, final_answer,
                   documents, loop_step, used_web_search, health_profile, has_records,
                   steps>>
    /\ UNCHANGED ivars

GraphNext ==
    \/ NewThread
    \/ StartTurn
    \/ router_node
    \/ assessment_tool_node
    \/ retrieve_node
    \/ web_search_node
    \/ grade_and_generate_node
    \/ summarizer_node
    \/ RecursionAbort


(***************************************************************************)
(* PART 2 - the structured interview engine and the loop that drives it    *)
(***************************************************************************)


\* structured_consultation.py MAX_FOLLOWUP_ROUNDS
MAX_FOLLOWUP_ROUNDS == 3

\* the loop re-prompts at most this many times per session in the model
MaxReprompts == 2

\* ---------------------------------------------------------------- texts

Digits == {"0", "1", "2", "3", "4", "5", "6", "7", "8", "9"}

DigitVal(c) ==
    CASE c = "0" -> 0 [] c = "1" -> 1 [] c = "2" -> 2 [] c = "3" -> 3 [] c = "4" -> 4
      [] c = "5" -> 5 [] c = "6" -> 6 [] c = "7" -> 7 [] c = "8" -> 8 [] c = "9" -> 9

\* str.isdigit
isdigit(t) == t # <<>> /\ \A i \in 1..Len(t) : t[i] \in Digits

\* int(t) of a digit string
RECURSIVE ToInt(_)
ToInt(t) == IF t = <<>> THEN 0 ELSE 10 * ToInt(SubSeq(t, 1, Len(t) - 1)) + DigitVal(t[Len(t)])

\* k in t (substring)
Contains(t, k) == \E i \in 0..(Len(t) - Len(k)) : SubSeq(t, i + 1, i + Len(k)) = k

\* str.strip
RECURSIVE strip(_)
strip(t) ==
    IF t = <<>> THEN t
    ELSE IF Head(t) = " " THEN strip(Tail(t))
    ELSE IF t[Len(t)] = " " THEN strip(SubSeq(t, 1, Len(t) - 1))
    ELSE t

\* text.replace(fullwidth comma, ",").split(",")
RECURSIVE split(_)
split(t) ==
    IF \A i \in 1..Len(t) : t[i] \notin {",", "fwcomma"} THEN << t >>
    ELSE LET i == CHOOSE j \in 1..Len(t) :
                     /\ t[j] \in {",", "fwcomma"}
                     /\ \A k \in 1..(j - 1) : t[k] \notin {",", "fwcomma"}
         IN  << SubSeq(t, 1, i - 1) >> \o split(SubSeq(t, i + 1, Len(t)))

InSeq(x, s) == \E i \in 1..Len(s) : s[i] = x

\* [k for k in keywords if k in text]
RECURSIVE KeywordsIn(_, _)
KeywordsIn(keywords, text) ==
    IF keywords = <<>> THEN <<>>
    ELSE (IF Contains(text, Head(keywords)) THEN << Head(keywords) >> ELSE <<>>)
         \o KeywordsIn(Tail(keywords), text)

\* structured_consultation.py EMERGENCY_KEYWORDS
EMERGENCY_KEYWORDS ==
    << <<"xiang", "zi", "sha">>, <<"bu", "xiang", "huo">>, <<"yao", "zi", "sha">>,
       <<"zi", "sha">>, <<"zi", "can">>, <<"zi", "shang">>,
       <<"xiang", "si">>, <<"huo", "bu", "xia", "qu">>, <<"jie", "shu", "sheng", "ming">> >>

\* structured_consultation.py MEDIUM_RISK_KEYWORDS
MEDIUM_RISK_KEYWORDS ==
    << <<"chi", "xu", "teng", "tong">>, <<"fan", "fu", "fa", "zuo">>,
       <<"yue", "lai", "yue", "yan", "zhong4">>,
       <<"fa", "shao">>, <<"gao", "xue", "ya">>, <<"di", "xue", "ya">>,
       <<"xin", "lv_law", "bu", "qi">>,
       <<"tou", "yun">>, <<"xuan", "yun">>, <<"e", "xin", "xiang", "tu">>,
       <<"pi", "zhen">>, <<"guo", "min">>, <<"zhong3", "zhang">>,
       <<"shi", "mian", "yan", "zhong4">>, <<"jiao", "lv_worry">>, <<"yi", "yu">> >>

WU     == <<"wu">>                 \* "none"
MEIYOU == <<"mei", "you">>         \* "have none"
QITA   == <<"qi", "ta">>           \* "other"

\* ---------------------------------------------------------------- questions

Field(name) == [name |-> name, n |-> 0]

Q(field, type, options, lo, hi, important, triggers) ==
    [field |-> Field(field), type |-> type, options |-> options, min |-> lo, max |-> hi,
     important |-> important, triggers_followup |-> triggers]

\* the empty dict / None where a question is expected
NoQuestion == [field |-> Field(""), type |-> "none", options |-> <<>>, min |-> 0, max |-> 0,
               important |-> FALSE, triggers_followup |-> FALSE]

HEALTH_MANAGEMENT_OPTION == <<"jian", "kang", "guan", "li">>
SYMPTOM_OPTION           == <<"shen", "ti", "bu", "shi">>

\* structured_consultation.py QUESTIONS
QUESTIONS(stage) ==
    CASE stage = "basic_info" ->
           << Q("gender", "choice", << <<"nan">>, <<"nv">> >>, 0, 0, FALSE, FALSE),
              Q("age", "number", <<>>, 0, 120, FALSE, FALSE),
              Q("height", "number", <<>>, 50, 250, FALSE, FALSE),
              Q("weight", "number", <<>>, 20, 300, FALSE, FALSE) >>
      [] stage = "medical_history" ->
           << Q("family_history", "multi_choice",
                << <<"gao", "xue", "ya">>, <<"tang", "niao", "bing">>, <<"xin", "zang", "bing">>,
                   <<"ai", "zheng">>, <<"nao", "cu", "zhong">>, QITA, WU >>, 0, 0, FALSE, FALSE),
              Q("allergies", "text", <<>>, 0, 0, FALSE, FALSE),
              Q("chronic_diseases", "multi_choice",
                << <<"gao", "xue", "ya">>, <<"tang", "niao", "bing">>, <<"gao", "xue", "zhi">>,
                   <<"xin", "zang", "bing">>, <<"xiao", "chuan">>, QITA, WU >>, 0, 0, FALSE, FALSE),
              Q("current_medications", "text", <<>>, 0, 0, FALSE, FALSE) >>
      [] stage = "consultation_type" ->
           << Q("consultation_type", "choice",
                << HEALTH_MANAGEMENT_OPTION, SYMPTOM_OPTION >>, 0, 0, FALSE, FALSE) >>
      [] stage = "current_symptoms" ->
           << Q("chief_complaint", "text", <<>>, 0, 0, TRUE, TRUE) >>
      [] stage = "followup" ->
           << Q("symptom_duration", "choice",
                << <<"jin", "tian">>, <<"1", "-", "3", "tian">>, <<"yi", "zhou">>,
                   <<"yi", "yue">>, <<"hen", "chang">> >>, 0, 0, FALSE, FALSE),
              Q("symptom_severity", "number", <<>>, 1, 10, FALSE, FALSE) >>
      [] OTHER -> <<>>

\* the "mapping" of the consultation-type question
\* mutant: the two labels are mapped the wrong way round
ConsultationMapping_Swapped(value) ==
    IF value = HEALTH_MANAGEMENT_OPTION THEN "symptom_consultation"
    ELSE "health_management"

\* _store_answer: the label -> consultation type mapping of the question
ConsultationMapping(value) ==
    IF value = HEALTH_MANAGEMENT_OPTION THEN "health_management"
    ELSE "symptom_consultation"

\* ---------------------------------------------------------------- validation

Invalid     == [ok |-> FALSE, kind |-> "none", text |-> <<>>, list |-> <<>>, num |-> 0]
VText(t)    == [ok |-> TRUE, kind |-> "text", text |-> t, list |-> <<>>, num |-> 0]
VList(l)    == [ok |-> TRUE, kind |-> "list", text |-> <<>>, list |-> l, num |-> 0]
VNum(n)     == [ok |-> TRUE, kind |-> "num", text |-> <<>>, list |-> <<>>, num |-> n]

\* float(answer) succeeds: over the sampled characters, exactly the digit strings
IsNumber(answer) == isdigit(answer)

\* the options one token of a multi_choice answer contributes
MultiToken(options, t) ==
    IF isdigit(t)
    THEN IF 0 <= ToInt(t) - 1 /\ ToInt(t) - 1 < Len(options)
         THEN << options[ToInt(t)] >> ELSE <<>>
    ELSE IF InSeq(t, options) \/ t = QITA THEN << t >> ELSE <<>>

RECURSIVE MultiValid(_, _)
MultiValid(options, selected) ==
    IF selected = <<>> THEN <<>>
    ELSE MultiToken(options, Head(selected)) \o MultiValid(options, Tail(selected))

RECURSIVE StripAll(_)
StripAll(ts) == IF ts = <<>> THEN <<>> ELSE << strip(Head(ts)) >> \o StripAll(Tail(ts))

\* mutant: a number is not held against the question's bounds
_validate_answer_NoBounds(question, answer) ==
    CASE question.type = "number" ->
           IF IsNumber(answer) THEN VNum(ToInt(answer)) ELSE Invalid
      [] question.type = "choice" ->
           IF isdigit(answer) /\ 0 <= ToInt(answer) - 1 /\ ToInt(answer) - 1 < Len(question.options)
           THEN VText(question.options[ToInt(answer)])
           ELSE Invalid
      [] question.type = "multi_choice" -> VList(StripAll(split(answer)))
      [] OTHER -> VText(answer)

\* StructuredConsultation._validate_answer
_validate_answer(question, answer) ==
    CASE question.type = "choice" ->
           IF isdigit(answer) /\ 0 <= ToInt(answer) - 1 /\ ToInt(answer) - 1 < Len(question.options)
           THEN VText(question.options[ToInt(answer)])
           ELSE IF InSeq(answer, question.options) THEN VText(answer)
           ELSE IF question.field.name = "followup" THEN VText(answer)
           ELSE Invalid
      [] question.type = "multi_choice" ->
           IF answer = WU \/ answer = MEIYOU THEN VList(<<>>)
           ELSE LET selected == StripAll(split(answer))
                    valid    == MultiValid(question.options, selected)
                IN  IF valid # <<>> THEN VList(valid) ELSE VList(selected)
      [] question.type = "number" ->
           IF ~IsNumber(answer) THEN Invalid
           ELSE IF ToInt(answer) < question.min \/ ToInt(answer) > question.max THEN Invalid
           ELSE VNum(ToInt(answer))
      [] OTHER ->
           IF strip(answer) # <<>> THEN VText(strip(answer)) ELSE Invalid

\* ---------------------------------------------------------------- records

\* dataclass UserProfile (the fields the engine reads or writes)
NewProfile ==
    [gender |-> <<>>, age |-> 0, height |-> 0, weight |-> 0, family_history |-> <<>>,
     allergies |-> <<>>, chronic_diseases |-> <<>>, current_medications |-> <<>>]

\* dataclass ConsultationSession; conversation is kept by its number of entries,
\* symptom_severity "" is kept as 0 (both are read as "no severity")
NewSession(stage) ==
    [current_stage |-> stage, consultation_type |-> "", chief_complaint |-> <<>>,
     symptom_duration |-> <<>>, symptom_severity |-> 0, followup_count |-> 0,
     followup_qa |-> <<>>, current_followup_question |-> NoQuestion, risk_level |-> "",
     risk_keywords_found |-> <<>>, llm_risk_reason |-> "", health_metrics |-> "",
     health_assessment |-> "", advice_given |-> "", referral_suggested |-> FALSE,
     end_time |-> "", conversation |-> 0]

\* current_session is None
NoSession == NewSession("none")

NotSaved == [saved |-> FALSE, data |-> NoSession]

\* what an engine call returns, the engine's state after it, and the oracles it asked
Ret(u, s, idx, sp, ss, cont, msg, risk, asked) ==
    [user |-> u, session |-> s, idx |-> idx, saved_profile |-> sp, saved_session |-> ss,
     cont |-> cont, msg |-> msg, risk |-> risk, asked |-> asked]

\* mutant: nothing is written
Saved_Nothing(s) == [saved |-> FALSE, data |-> NewSession("none")]

\* save_session
Saved(s) == [saved |-> TRUE, data |-> s]

\* ---------------------------------------------------------------- oracle replies

\* the risk oracle: an exception, text that is no JSON, or JSON naming a level
RiskReplies == {"raise", "malformed", "CRITICAL", "HIGH", "MEDIUM", "LOW", "OTHER"}

\* the followup-decision oracle: an exception, text that is no JSON, need_followup
\* false, need_followup true without a question, or a question with or without options
FollowupReplies == {"raise", "malformed", "decline", "need_no_question", "ask_text", "ask_choice"}

\* the body-status oracle
AnalysisReplies == {"label", "raise"}

\* options the followup oracle offers with a question
FollowupOptions == << <<"qian", "e">>, <<"tou", "yun">>, <<"hou", "nao">> >>

\* ---------------------------------------------------------------- the engine

\* mutant: the weight is not looked at
has_complete_profile_NoWeight(u) ==
    u.gender # <<>> /\ u.age > 0 /\ u.height > 0

\* StructuredConsultation.has_complete_profile
has_complete_profile(u) ==
    u.gender # <<>> /\ u.age > 0 /\ u.height > 0 /\ u.weight > 0

\* StructuredConsultation._perform_health_analysis
_perform_health_analysis(u, s, hasLlm, reply) ==
    IF ~(u.height # 0 /\ u.weight # 0 /\ u.age # 0) THEN s
    ELSE LET m == [s EXCEPT !.health_metrics = "computed"]
         IN  IF ~hasLlm THEN m
             ELSE [m EXCEPT !.health_assessment =
                                IF reply = "raise" THEN "unavailable" ELSE "label"]

AnalysisAsks(u, hasLlm) == hasLlm /\ u.height # 0 /\ u.weight # 0 /\ u.age # 0

\* mutant: an ended session offers no question
get_current_question_Terminal(s, idx) ==
    IF s.current_stage = "none" \/ s.end_time # "" THEN NoQuestion
    ELSE IF s.current_stage = "followup"
    THEN IF s.current_followup_question # NoQuestion THEN s.current_followup_question
         ELSE IF idx < Len(QUESTIONS("followup")) THEN QUESTIONS("followup")[idx + 1]
         ELSE NoQuestion
    ELSE IF idx >= Len(QUESTIONS(s.current_stage)) THEN NoQuestion
    ELSE QUESTIONS(s.current_stage)[idx + 1]

\* StructuredConsultation.get_current_question
get_current_question(s, idx) ==
    IF s.current_stage = "none" THEN NoQuestion
    ELSE IF s.current_stage = "followup"
    THEN IF s.current_followup_question # NoQuestion THEN s.current_followup_question
         ELSE IF idx < Len(QUESTIONS("followup")) THEN QUESTIONS("followup")[idx + 1]
         ELSE NoQuestion
    ELSE IF idx >= Len(QUESTIONS(s.current_stage)) THEN NoQuestion
    ELSE QUESTIONS(s.current_stage)[idx + 1]

\* the first emergency keyword the text contains, <<>> if none
FirstEmergency(text) ==
    LET found == KeywordsIn(EMERGENCY_KEYWORDS, text)
    IN  IF found = <<>> THEN <<>> ELSE Head(found)

HasEmergency(text) == FirstEmergency(text) # <<>>

\* mutant: a HIGH reply ends the interview like a CRITICAL one
_llm_risk_assessment_HighEnds(s, reply) ==
    IF reply \in {"raise", "malformed"} THEN [level |-> "low", msg |-> None, session |-> s]
    ELSE LET r == [s EXCEPT !.llm_risk_reason = "reason"]
         IN  IF reply \in {"CRITICAL", "HIGH"}
             THEN [level |-> "critical", msg |-> "go_to_emergency_room", session |-> r]
             ELSE [level |-> "low", msg |-> None, session |-> r]

\* mutant: a reply that cannot be used fails closed, as a CRITICAL one
_llm_risk_assessment_FailClosed(s, reply) ==
    IF reply \in {"raise", "malformed", "CRITICAL"}
    THEN [level |-> "critical", msg |-> "go_to_emergency_room",
          session |-> [s EXCEPT !.llm_risk_reason = "reason"]]
    ELSE LET r == [s EXCEPT !.llm_risk_reason = "reason"]
         IN  IF reply = "HIGH"
             THEN [level |-> "high", msg |-> "see_a_doctor_within_24h",
                   session |-> [r EXCEPT !.risk_keywords_found = << <<"AI", "high", "risk">> >>]]
             ELSE [level |-> "low", msg |-> None, session |-> r]

\* StructuredConsultation._llm_risk_assessment: [level, msg, session]
_llm_risk_assessment(s, reply) ==
    IF reply \in {"raise", "malformed"} THEN [level |-> "low", msg |-> None, session |-> s]
    ELSE LET r == [s EXCEPT !.llm_risk_reason = "reason"]
         IN  IF reply = "CRITICAL"
             THEN [level |-> "critical", msg |-> "go_to_emergency_room", session |-> r]
             ELSE IF reply = "HIGH"
             THEN [level |-> "high", msg |-> "see_a_doctor_within_24h",
                   session |-> [r EXCEPT !.risk_keywords_found = << <<"AI", "high", "risk">> >>]]
             ELSE [level |-> "low", msg |-> None, session |-> r]

\* mutant: with an oracle configured, the oracle decides; the keywords are the fallback
_assess_risk_realtime_OracleFirst(s, text, hasLlm, reply) ==
    IF hasLlm
    THEN LET r == _llm_risk_assessment(s, reply)
         IN  [level |-> r.level, msg |-> r.msg, asked |-> TRUE, session |-> r.session]
    ELSE IF HasEmergency(text)
    THEN [level |-> "critical", msg |-> "crisis_hotline", asked |-> FALSE,
          session |-> [s EXCEPT !.risk_keywords_found = << FirstEmergency(text) >>]]
    ELSE [level |-> "low", msg |-> None, asked |-> FALSE, session |-> s]

\* StructuredConsultation._assess_risk_realtime: [level, msg, session, asked]
_assess_risk_realtime(s, text, hasLlm, reply) ==
    IF HasEmergency(text)
    THEN [level |-> "critical", msg |-> "crisis_hotline", asked |-> FALSE,
          session |-> [s EXCEPT !.risk_keywords_found = << FirstEmergency(text) >>]]
    ELSE IF hasLlm
    THEN LET r == _llm_risk_assessment(s, reply)
         IN  [level |-> r.level, msg |-> r.msg, asked |-> TRUE, session |-> r.session]
    ELSE [level |-> "low", msg |-> None, asked |-> FALSE, session |-> s]

\* StructuredConsultation._check_need_followup: the question to ask, NoQuestion if none
_check_need_followup(s, hasLlm, reply) ==
    IF ~hasLlm THEN NoQuestion
    ELSE IF reply = "ask_text"
    THEN [NoQuestion EXCEPT !.type = "text",
                            !.field = [name |-> "followup", n |-> s.followup_count + 1]]
    ELSE IF reply = "ask_choice"
    THEN [NoQuestion EXCEPT !.type = "choice", !.options = FollowupOptions,
                            !.field = [name |-> "followup", n |-> s.followup_count + 1]]
    ELSE NoQuestion

\* chief complaint and every followup answer, blank-separated
RECURSIVE AnswersText(_)
AnswersText(qa) ==
    IF qa = <<>> THEN <<>> ELSE <<" ">> \o Head(qa).answer \o AnswersText(Tail(qa))

\* what one engine call did: ran the risk classifier (checked), and which oracles it asked
Asked(checked, risk, followup, analysis) ==
    [checked |-> checked, risk |-> risk, followup |-> followup, analysis |-> analysis]

NoneAsked == Asked(FALSE, FALSE, FALSE, FALSE)

\* mutant: only the keywords decide, the severity is not looked at
_do_final_assessment_KeywordsOnly(u, s, idx, sp, ss, asked) ==
    LET all_text     == s.chief_complaint \o AnswersText(s.followup_qa)
        found_medium == KeywordsIn(MEDIUM_RISK_KEYWORDS, all_text)
    IN  IF found_medium # <<>>
        THEN LET m == [s EXCEPT !.risk_level = "medium", !.risk_keywords_found = found_medium,
                                !.referral_suggested = TRUE]
             IN  Ret(u, m, idx, sp, Saved(m), TRUE, "see_a_doctor_soon", "medium", asked)
        ELSE LET l == [s EXCEPT !.risk_level = "low"]
             IN  Ret(u, l, idx, sp, Saved(l), TRUE, "thank_you_analyzing", "low", asked)

\* mutant: a HIGH recorded by the realtime check is kept as the final level
_do_final_assessment_KeepsHigh(u, s, idx, sp, ss, asked) ==
    IF InSeq(<<"AI", "high", "risk">>, s.risk_keywords_found)
    THEN LET h == [s EXCEPT !.risk_level = "high", !.referral_suggested = TRUE]
         IN  Ret(u, h, idx, sp, Saved(h), TRUE, "see_a_doctor_soon", "high", asked)
    ELSE LET l == [s EXCEPT !.risk_level = "low"]
         IN  Ret(u, l, idx, sp, Saved(l), TRUE, "thank_you_analyzing", "low", asked)

\* StructuredConsultation._do_final_assessment
_do_final_assessment(u, s, idx, sp, ss, asked) ==
    LET all_text     == s.chief_complaint \o AnswersText(s.followup_qa)
        found_medium == KeywordsIn(MEDIUM_RISK_KEYWORDS, all_text)
    IN  IF found_medium # <<>> \/ s.symptom_severity >= 7
        THEN LET m == [s EXCEPT !.risk_level = "medium", !.risk_keywords_found = found_medium,
                                !.referral_suggested = TRUE]
             IN  Ret(u, m, idx, sp, Saved(m), TRUE, "see_a_doctor_soon", "medium", asked)
        ELSE LET l == [s EXCEPT !.risk_level = "low"]
             IN  Ret(u, l, idx, sp, Saved(l), TRUE, "thank_you_analyzing", "low", asked)

\* mutant: the branch is missing, the call falls through to "finished"
AdvanceFromSymptoms_Missing(u, s, sp, ss, asked) ==
    Ret(u, s, 0, sp, ss, FALSE, "consultation_finished", None, asked)

\* _advance_stage, stage CURRENT_SYMPTOMS: no followup, straight to the assessment
AdvanceFromSymptoms(u, s, sp, ss, asked) ==
    _do_final_assessment(u, [s EXCEPT !.current_stage = "assessment"], 0, sp, ss, asked)

\* mutant: after the consultation type the interview goes back to the medical history
_advance_stage_Back(u, s, idx, sp, ss, hasLlm, analysis, asked) ==
    IF s.current_stage = "consultation_type"
    THEN Ret(u, [s EXCEPT !.current_stage = "medical_history"], 0, sp, ss,
             TRUE, "history_recorded", None, asked)
    ELSE Ret(u, s, 0, sp, ss, FALSE, "consultation_finished", None, asked)

\* StructuredConsultation._advance_stage
_advance_stage(u, s, idx, sp, ss, hasLlm, analysis, asked) ==
    CASE s.current_stage = "basic_info" ->
           Ret(u, [_perform_health_analysis(u, s, hasLlm, analysis)
                       EXCEPT !.current_stage = "medical_history"],
               0, sp, ss, TRUE, "basic_info_recorded", None,
               [asked EXCEPT !.analysis = AnalysisAsks(u, hasLlm)])
      [] s.current_stage = "medical_history" ->
           Ret(u, [s EXCEPT !.current_stage = "consultation_type"], 0, sp, ss,
               TRUE, "history_recorded", None, asked)
      [] s.current_stage = "consultation_type" ->
           IF s.consultation_type = "health_management"
           THEN LET h == [s EXCEPT !.current_stage = "assessment", !.risk_level = "low",
                                   !.chief_complaint = <<"jian", "kang", "guan", "li", "zi", "xun">>]
                IN  Ret(u, h, 0, sp, Saved(h), FALSE, "health_management_advice", "low", asked)
           ELSE Ret(u, [s EXCEPT !.current_stage = "current_symptoms"], 0, sp, ss,
                    TRUE, "describe_your_symptoms", None, asked)
      [] s.current_stage = "current_symptoms" ->
           AdvanceFromSymptoms(u, s, sp, ss, asked)
      [] OTHER ->
           Ret(u, s, 0, sp, ss, FALSE, "consultation_finished", None, asked)

\* mutant: the word for "none" is stored like any other entry
_store_answer_KeepsNone(u, s, field, v) ==
    CASE s.current_stage = "basic_info" ->
           [user |-> CASE field = "gender" -> [u EXCEPT !.gender = v.text]
                       [] field = "age"    -> [u EXCEPT !.age = v.num]
                       [] field = "height" -> [u EXCEPT !.height = v.num]
                       [] OTHER            -> [u EXCEPT !.weight = v.num],
            session |-> s, save |-> TRUE]
      [] s.current_stage = "medical_history" ->
           LET value == IF v.kind = "list" THEN v.list ELSE << v.text >>
           IN  [user |-> CASE field = "family_history"   -> [u EXCEPT !.family_history = value]
                           [] field = "allergies"        -> [u EXCEPT !.allergies = value]
                           [] field = "chronic_diseases" -> [u EXCEPT !.chronic_diseases = value]
                           [] OTHER -> [u EXCEPT !.current_medications = value],
                session |-> s, save |-> TRUE]
      [] s.current_stage = "consultation_type" ->
           [user |-> u, session |-> [s EXCEPT !.consultation_type = ConsultationMapping(v.text)],
            save |-> FALSE]
      [] s.current_stage = "current_symptoms" ->
           [user |-> u, session |-> [s EXCEPT !.chief_complaint = v.text], save |-> FALSE]
      [] OTHER -> [user |-> u, session |-> s, save |-> FALSE]

\* StructuredConsultation._store_answer
_store_answer(u, s, field, v) ==
    CASE s.current_stage = "basic_info" ->
           [user |-> CASE field = "gender" -> [u EXCEPT !.gender = v.text]
                       [] field = "age"    -> [u EXCEPT !.age = v.num]
                       [] field = "height" -> [u EXCEPT !.height = v.num]
                       [] OTHER            -> [u EXCEPT !.weight = v.num],
            session |-> s, save |-> TRUE]
      [] s.current_stage = "medical_history" ->
           LET value == IF v.kind = "list" THEN v.list
                        ELSE IF v.text # <<>> /\ v.text # WU THEN << v.text >> ELSE <<>>
           IN  [user |-> CASE field = "family_history"   -> [u EXCEPT !.family_history = value]
                           [] field = "allergies"        -> [u EXCEPT !.allergies = value]
                           [] field = "chronic_diseases" -> [u EXCEPT !.chronic_diseases = value]
                           [] OTHER -> [u EXCEPT !.current_medications = value],
                session |-> s, save |-> TRUE]
      [] s.current_stage = "consultation_type" ->
           [user |-> u, session |-> [s EXCEPT !.consultation_type = ConsultationMapping(v.text)],
            save |-> FALSE]
      [] s.current_stage = "current_symptoms" ->
           [user |-> u, session |-> [s EXCEPT !.chief_complaint = v.text], save |-> FALSE]
      [] OTHER -> [user |-> u, session |-> s, save |-> FALSE]

\* mutant: the critical level is recorded but the interview goes on
CriticalExit_GoesOn(u, s, idx, sp, risk) ==
    LET c == [s EXCEPT !.risk_level = "critical", !.end_time = "set"]
    IN  Ret(u, c, idx, sp, Saved(c), TRUE, None, None, Asked(TRUE, risk.asked, FALSE, FALSE))

\* the critical exit of process_answer and _process_followup_answer
CriticalExit(u, s, idx, sp, risk) ==
    LET c == [s EXCEPT !.risk_level = "critical", !.end_time = "set"]
    IN  Ret(u, c, idx, sp, Saved(c), FALSE, risk.msg, "critical",
            Asked(TRUE, risk.asked, FALSE, FALSE))

\* mutant: the rejected answer is skipped, the index moves on
Reprompt_Skips(u, s, idx, sp, ss) ==
    Ret(u, s, idx + 1, sp, ss, TRUE, "invalid_answer", None, NoneAsked)

\* mutant: the session is written to disk on a rejected answer as well
Reprompt_Saves(u, s, idx, sp, ss) ==
    Ret(u, s, idx, sp, Saved(s), TRUE, "invalid_answer", None, Asked(FALSE, FALSE, FALSE, FALSE))

\* "if validated_answer is None: return True, <invalid, answer again: question>, None"
Reprompt(u, s, idx, sp, ss) ==
    Ret(u, s, idx, sp, ss, TRUE, "invalid_answer", None, NoneAsked)

\* mutant: the round budget is not looked at
MoreFollowup_NoBudget(s, hasLlm) == hasLlm

\* _process_followup_answer: "session.followup_count < MAX_FOLLOWUP_ROUNDS and self.llm"
MoreFollowup(s, hasLlm) == s.followup_count < MAX_FOLLOWUP_ROUNDS /\ hasLlm

\* StructuredConsultation._process_followup_answer (the log entries are already appended)
_process_followup_answer(u, s, idx, sp, ss, hasLlm, answer, riskReply, followupReply) ==
    LET question == get_current_question(s, idx) IN
    IF s.current_followup_question # NoQuestion
    THEN LET a    == [s EXCEPT !.followup_qa = Append(@, [question |-> s.current_followup_question.field.n,
                                                         answer |-> answer]),
                               !.followup_count = @ + 1]
             risk == _assess_risk_realtime(a, answer, hasLlm, riskReply)
             r    == risk.session
             more == MoreFollowup(r, hasLlm)
             next == IF more THEN _check_need_followup(r, hasLlm, followupReply) ELSE NoQuestion
         IN  IF risk.level = "critical" THEN CriticalExit(u, r, idx, sp, risk)
             ELSE IF next # NoQuestion
             THEN Ret(u, [r EXCEPT !.current_followup_question = next], idx, sp, ss,
                      TRUE, None, None, Asked(TRUE, risk.asked, more, FALSE))
             ELSE Ret(u, [r EXCEPT !.current_followup_question = NoQuestion], 0, sp, ss,
                      TRUE, "a_few_more_questions", None, Asked(TRUE, risk.asked, more, FALSE))
    ELSE IF question # NoQuestion
    THEN LET v == _validate_answer(question, answer) IN
         IF ~v.ok THEN Reprompt(u, s, idx, sp, ss)
         ELSE LET t == IF question.field.name = "symptom_duration"
                       THEN [s EXCEPT !.symptom_duration = v.text]
                       ELSE [s EXCEPT !.symptom_severity = v.num]
              IN  IF idx + 1 >= Len(QUESTIONS("followup"))
                  THEN _do_final_assessment(u, [t EXCEPT !.current_stage = "assessment"],
                                            idx + 1, sp, ss, NoneAsked)
                  ELSE Ret(u, t, idx + 1, sp, ss, TRUE, None, None, NoneAsked)
    ELSE _do_final_assessment(u, [s EXCEPT !.current_stage = "assessment"], idx, sp, ss, NoneAsked)

\* StructuredConsultation.process_answer
process_answer(u, s0, idx, sp, ss, hasLlm, answer, riskReply, followupReply, analysisReply) ==
    LET question == get_current_question(s0, idx) IN
    IF s0.current_stage = "none" THEN Ret(u, s0, idx, sp, ss, FALSE, "not_initialised", None, NoneAsked)
    ELSE IF question = NoQuestion THEN Ret(u, s0, idx, sp, ss, FALSE, "no_more_questions", None, NoneAsked)
    ELSE LET s == [s0 EXCEPT !.conversation = @ + 2] IN
    IF s.current_stage = "followup"
    THEN _process_followup_answer(u, s, idx, sp, ss, hasLlm, answer, riskReply, followupReply)
    ELSE LET v == _validate_answer(question, answer) IN
    IF ~v.ok THEN Reprompt(u, s, idx, sp, ss)
    ELSE LET st     == _store_answer(u, s, question.field.name, v)
             sp1    == IF st.save THEN st.user ELSE sp
             risk   == IF question.important
                       THEN _assess_risk_realtime(st.session, answer, hasLlm, riskReply)
                       ELSE [level |-> "low", msg |-> None, session |-> st.session, asked |-> FALSE]
             r      == risk.session
             decide == question.triggers_followup /\ hasLlm
             fq     == IF decide THEN _check_need_followup(r, hasLlm, followupReply) ELSE NoQuestion
         IN  IF question.important /\ risk.level = "critical"
             THEN CriticalExit(st.user, r, idx, sp1, risk)
             ELSE IF fq # NoQuestion
             THEN Ret(st.user, [r EXCEPT !.current_stage = "followup",
                                         !.current_followup_question = fq],
                      idx, sp1, ss, TRUE, "need_more_information", None,
                      Asked(question.important, risk.asked, decide, FALSE))
             ELSE IF idx + 1 >= Len(QUESTIONS(s.current_stage))
             THEN _advance_stage(st.user, r, idx + 1, sp1, ss, hasLlm, analysisReply,
                                 Asked(question.important, risk.asked, decide, FALSE))
             ELSE Ret(st.user, r, idx + 1, sp1, ss, TRUE, None, None,
                      Asked(question.important, risk.asked, decide, FALSE))

\* StructuredConsultation.start_session
start_session(u, sp, hasLlm, analysis) ==
    IF has_complete_profile(u)
    THEN Ret(u, _perform_health_analysis(u, NewSession("consultation_type"), hasLlm, analysis),
             0, sp, NotSaved, TRUE, None, None,
             Asked(FALSE, FALSE, FALSE, AnalysisAsks(u, hasLlm)))
    ELSE Ret(u, NewSession("basic_info"), 0, sp, NotSaved, TRUE, None, None, NoneAsked)

\* ---------------------------------------------------------------- the user

\* an answer naming an emergency keyword, one naming a medium-risk keyword, a plain one
EmergencyText == <<"wo", "xiang", "zi", "sha">>
MediumText    == <<"you", "dian", "tou", "yun">>
PlainText     == <<"ke", "sou">>

\* a returning user's profile.json, as an earlier interview leaves it
ReturningProfile ==
    [NewProfile EXCEPT !.gender = <<"nan">>, !.age = 30, !.height = 170, !.weight = 70]

\* the profile.json of a user who quit an earlier interview at the weight question
PartialProfile ==
    [NewProfile EXCEPT !.gender = <<"nan">>, !.age = 30, !.height = 170]

\* what the user types at a question (stripped and never blank, as the loop passes it)
Answers(question) ==
    CASE question.field.name = "gender"              -> {<<"1">>, <<"0">>, EmergencyText}
      [] question.field.name = "age"                 -> {<<"3", "0">>, <<"1", "7", "0">>}
      [] question.field.name = "height"              -> {<<"1", "7", "0">>, <<"3", "0">>}
      [] question.field.name = "weight"              -> {<<"7", "0">>, <<"1">>, PlainText}
      [] question.field.name = "family_history"      -> {<<"1", "fwcomma", " ", "2">>}
      [] question.field.name = "allergies"           -> {WU, EmergencyText}
      [] question.field.name = "chronic_diseases"    -> {MEIYOU}
      [] question.field.name = "current_medications" -> {WU}
      [] question.field.name = "consultation_type"   -> {<<"1">>, <<"2">>, <<"0">>}
      [] question.field.name = "chief_complaint"     -> {PlainText, MediumText, EmergencyText}
      [] question.field.name = "followup"            -> {<<"1">>, MediumText, EmergencyText}
      [] question.field.name = "symptom_duration"    -> {<<"2">>, <<"8">>, EmergencyText}
      [] question.field.name = "symptom_severity"    -> {<<"3">>, <<"8">>, <<"0">>, EmergencyText}
      [] OTHER                                       -> {PlainText}

\* ---------------------------------------------------------------- run_health_advisor

NoCall == [op |-> "none", answer |-> <<>>, question |-> NoQuestion, cont |-> TRUE,
           msg |-> None, risk |-> None, asked |-> NoneAsked, reply |-> "none",
           tier |-> "none"]

\* the record of a call: what was asked and answered, what the call returned, and,
\* if the call asked the risk oracle, what it replied and the tier that
\* _llm_risk_assessment returned to the realtime check for that reply
Call(op, answer, question, R, riskReply) ==
    [op |-> op, answer |-> answer, question |-> question, cont |-> R.cont,
     msg |-> R.msg, risk |-> R.risk, asked |-> R.asked,
     reply |-> IF R.asked.risk THEN riskReply ELSE "none",
     tier |-> IF R.asked.risk THEN _llm_risk_assessment(R.session, riskReply).level
              ELSE "none"]

\* the text a call returned: the re-prompt names the question it repeats
ReturnedText(call) ==
    <<call.msg, IF call.msg = "invalid_answer" THEN call.question.field ELSE Field("")>>

\* the engine after a call
Engine(R) ==
    /\ current_user' = R.user
    /\ current_session' = R.session
    /\ current_question_index' = R.idx
    /\ saved_profile' = R.saved_profile

\* The replies drawn for a call. An oracle the call does not reach has no reply to
\* draw, and one fixed value stands in its place. At the chief complaint every reply is
\* drawn; at the dynamic followup questions, one reply for each way the handler goes
\* on (an exception, and each outcome of a reply that parses).
RiskRepliesAt(question, answer) ==
    IF ~llm \/ HasEmergency(answer) THEN {"LOW"}
    ELSE IF question.important THEN RiskReplies
    ELSE IF question.field.name = "followup" THEN {"raise", "CRITICAL", "HIGH", "LOW"}
    ELSE {"LOW"}

FollowupRepliesAt(question, answer, riskReply) ==
    IF ~llm \/ HasEmergency(answer) \/ riskReply = "CRITICAL" THEN {"decline"}
    ELSE IF question.triggers_followup THEN FollowupReplies
    ELSE IF question.field.name = "followup" THEN {"raise", "decline", "ask_text", "ask_choice"}
    ELSE {"decline"}

\* the body-status oracle is asked by start_session and when BASIC_INFO is left
AnalysisRepliesAt(stage, idx) ==
    IF llm /\ (stage = "start" \/ (stage = "basic_info" /\ idx + 1 >= Len(QUESTIONS(stage))))
    THEN AnalysisReplies ELSE {"label"}

InitInterview ==
    /\ llm \in BOOLEAN
    /\ current_user \in {NewProfile, PartialProfile, ReturningProfile}
    /\ saved_profile = current_user
    /\ current_session = NoSession
    /\ current_question_index = 0
    /\ saved_session = NotSaved
    /\ ui = [phase |-> "identified", reprompts |-> 0, shown |-> {}, quit |-> FALSE,
             advice |-> "", confirm |-> "not_asked"]
    /\ last = NoCall
    /\ iterations = 0

\* run_health_advisor: consultation.start_session()
StartSession ==
    /\ ui.phase = "identified"
    /\ \E analysis \in AnalysisRepliesAt("start", 0) :
         \E R \in {start_session(current_user, saved_profile, llm, analysis)} :
             /\ Engine(R)
             /\ saved_session' = R.saved_session
             /\ last' = Call("start_session", <<>>, NoQuestion, R, "none")
    /\ ui' = [ui EXCEPT !.phase = "asking"]
    /\ iterations' = iterations + 1
    /\ UNCHANGED <<llm, gvars>>

\* what the user types at a multi_choice question: indices, the words for "none", a
\* free-form entry, and entries that mix an index with free-form text
MultiAnswers ==
    { <<"1", "fwcomma", " ", "2">>, WU, MEIYOU, <<"tong", "feng">>,
      <<"1", ",", "tong", "feng">> }

\* what the user types at a number question of the basic information: the bounds of
\* the question's range and the values next to them
BoundAnswers(question) ==
    CASE question.field.name = "age"    -> {<<"0">>, <<"1", "2", "0">>, <<"1", "2", "1">>}
      [] question.field.name = "height" -> {<<"4", "9">>, <<"5", "0">>, <<"2", "5", "0">>}
      [] question.field.name = "weight" -> {<<"2", "0">>, <<"3", "0", "0">>, <<"3", "0", "1">>}
      [] OTHER                          -> {}

\* what the user types at a text question of the medical history: an entry, and the
\* two words for "none"
HistoryTexts(question) ==
    CASE question.field.name = "allergies"           -> {PlainText}
      [] question.field.name = "current_medications" -> {PlainText, MEIYOU}
      [] OTHER                                       -> {}

\* the sampled answers; with any, every sampled kind of answer at a multi_choice
\* question, the bounds of the range at a number question of the basic information
\* and the kinds of text at a text question of the medical history
AnyAnswers(question, any) ==
    IF any /\ question.type = "multi_choice" THEN MultiAnswers
    ELSE IF any THEN Answers(question) \cup BoundAnswers(question) \cup HistoryTexts(question)
    ELSE Answers(question)

\* run_health_advisor: a question is shown, the user answers, process_answer(answer)
AnswerQuestionWith(any) ==
    /\ ui.phase = "asking"
    /\ LET question == get_current_question(current_session, current_question_index)
       IN  /\ question # NoQuestion
           /\ \E answer \in AnyAnswers(question, any) :
              \E riskReply \in RiskRepliesAt(question, answer) :
              \E followupReply \in FollowupRepliesAt(question, answer, riskReply),
                 analysisReply \in AnalysisRepliesAt(current_session.current_stage,
                                                     current_question_index) :
              \E R \in {process_answer(current_user, current_session, current_question_index,
                                      saved_profile, saved_session, llm, answer,
                                      riskReply, followupReply, analysisReply)} :
                LET again == R.cont /\ R.msg = "invalid_answer"
                IN  /\ again => ui.reprompts < MaxReprompts
                    /\ Engine(R)
                    /\ last' = Call("process_answer", answer, question, R, riskReply)
                    /\ saved_session' = IF R.risk = "critical" THEN Saved(R.session)
                                        ELSE R.saved_session
                    /\ ui' = [ui EXCEPT
                                !.shown = @ \cup {question.field.name},
                                !.reprompts = IF again THEN @ + 1 ELSE @,
                                !.phase = IF R.risk = "critical" THEN "done"
                                          ELSE IF ~R.cont THEN "evaluation" ELSE @]
    /\ iterations' = iterations + 1
    /\ UNCHANGED <<llm, gvars>>

AnswerQuestion == AnswerQuestionWith(FALSE)

\* run_health_advisor: no question is left, consultation._advance_stage()
AdvanceWithoutQuestion ==
    /\ ui.phase = "asking"
    /\ get_current_question(current_session, current_question_index) = NoQuestion
    /\ \E analysisReply \in AnalysisRepliesAt(current_session.current_stage,
                                                current_question_index) :
         \E R \in {_advance_stage(current_user, current_session, current_question_index,
                                 saved_profile, saved_session, llm, analysisReply, NoneAsked)} :
             /\ Engine(R)
             /\ saved_session' = R.saved_session
             /\ last' = Call("_advance_stage", <<>>, NoQuestion, R, "none")
             /\ ui' = [ui EXCEPT !.phase = IF ~R.cont THEN "evaluation" ELSE @]
    /\ iterations' = iterations + 1
    /\ UNCHANGED <<llm, gvars>>

\* run_health_advisor: the user types q (or qq) instead of an answer
Quit ==
    /\ ui.phase = "asking"
    /\ LET question == get_current_question(current_session, current_question_index)
       IN  /\ question # NoQuestion
           /\ ui' = [ui EXCEPT !.phase = "done", !.quit = TRUE,
                               !.shown = @ \cup {question.field.name}]
    /\ saved_session' = Saved(current_session)
    /\ iterations' = iterations + 1
    /\ UNCHANGED <<llm, current_user, current_session, current_question_index,
                   saved_profile, last, gvars>>

\* mutant: a medium risk gets the advice whether the user wants it or not
Evaluate_NoConfirm ==
    /\ ui.phase = "evaluation"
    /\ LET risk_level == IF current_session.risk_level # "" THEN current_session.risk_level
                         ELSE "low"
       IN  \E confirm \in BOOLEAN, streamed \in BOOLEAN :
             /\ risk_level # "medium" => confirm
             /\ risk_level \notin {"low", "medium"} => streamed
             /\ IF risk_level = "low" /\ streamed
                THEN /\ current_session' = [current_session EXCEPT !.advice_given = "rag"]
                     /\ saved_session' = Saved(current_session')
                ELSE UNCHANGED <<current_session, saved_session>>
             /\ ui' = [ui EXCEPT !.phase = "done",
                                 !.confirm = IF risk_level # "medium" THEN "not_asked"
                                             ELSE IF confirm THEN "y" ELSE "n",
                                 !.advice = IF risk_level \notin {"low", "medium"} THEN "none"
                                            ELSE IF streamed THEN "given" ELSE "failed"]
    /\ iterations' = iterations + 1
    /\ UNCHANGED <<llm, current_user, current_question_index, saved_profile, last, gvars>>

\* run_health_advisor, step 3: the advice for a low risk, offered for a medium one.
\* advice is "given" or "failed" when app.stream was called, confirm is the user's
\* answer to the offer.
Evaluate ==
    /\ ui.phase = "evaluation"
    /\ LET risk_level == IF current_session.risk_level # "" THEN current_session.risk_level
                         ELSE "low"
       IN  \E confirm \in BOOLEAN, streamed \in BOOLEAN :
             /\ risk_level # "medium" => confirm
             /\ ~(risk_level \in {"low", "medium"} /\ confirm) => streamed
             /\ IF risk_level = "low" /\ streamed
                THEN /\ current_session' = [current_session EXCEPT !.advice_given = "rag"]
                     /\ saved_session' = Saved(current_session')
                ELSE UNCHANGED <<current_session, saved_session>>
             /\ ui' = [ui EXCEPT !.phase = "done",
                                 !.confirm = IF risk_level # "medium" THEN "not_asked"
                                             ELSE IF confirm THEN "y" ELSE "n",
                                 !.advice = IF risk_level \notin {"low", "medium"} THEN "none"
                                            ELSE IF ~confirm THEN "declined"
                                            ELSE IF streamed THEN "given" ELSE "failed"]
    /\ iterations' = iterations + 1
    /\ UNCHANGED <<llm, current_user, current_question_index, saved_profile, last, gvars>>

Next ==
    \/ StartSession
    \/ AnswerQuestion
    \/ AdvanceWithoutQuestion
    \/ Quit
    \/ Evaluate

\* ---------------------------------------------------------------- specifications

\* the interview, no conversation turn running
Init ==
    /\ InitInterview
    /\ InitGraph
    /\ has_records = FALSE

Spec == Init /\ [][Next]_vars

\* run_health_advisor has not returned and takes its next step
LoopRuns == ui.phase # "done" /\ iterations' = iterations + 1

\* the loop keeps running and the user keeps typing until run_health_advisor returns
FairSpec == Spec /\ WF_iterations(LoopRuns)

\* the interview of a new user without a configured oracle, who may type any sampled
\* kind of answer at the multi_choice questions of the medical history and the bounds
\* of the ranges at the number questions of the basic information
AnswerAnyChoice == AnswerQuestionWith(TRUE)

HistoryInit ==
    /\ Init
    /\ llm = FALSE
    /\ current_user = NewProfile

HistoryNext ==
    \/ StartSession
    \/ AnswerAnyChoice
    \/ AdvanceWithoutQuestion
    \/ Quit
    \/ Evaluate

HistorySpec == HistoryInit /\ [][HistoryNext]_vars

\* the conversation graph, no interview running
GraphInit ==
    /\ InitGraph
    /\ InitInterview
    /\ llm = FALSE
    /\ current_user = NewProfile

GraphSpec == GraphInit /\ [][GraphNext]_vars

\* the router alone, on a message with any combination of the features detect_mode
\* reads: a turn is started and runs up to the node the router hands over to
StartAnyTurn == StartTurnWith(AllMessages)

RouterNext ==
    \/ StartAnyTurn
    \/ router_node
    \/ NewThread

RouterSpec == GraphInit /\ [][RouterNext]_vars

\* ---------------------------------------------------------------- claims on the graph

\* C4: a conversation turn terminates: whatever the gradings and the retrieval
\* results, a turn in which no oracle invocation raises ends at END, after the
\* summarizer has run, and the runtime never has to cut it off.
C4_TurnReachesEnd ==
    /\ pc = "aborted" => tlog.cause = "oracle"
    /\ pc = "END" => Runs("summarizer") = 1 /\ Last(tlog.trace) = "summarizer"

\* C4 is refuted by a turn that follows an aborted one on the same thread: the
\* state reached there, cut off by the runtime with no oracle having raised.
C4_CutOffTurn == pc = "aborted" /\ tlog.cause = "recursion"

\* C5 as claimed: one run of the retrieval loop makes at most
\* MAX_RETRIEVAL_LOOPS + 2 oracle calls, gradings and rewritings included.
C5_AtMostBudgetPlusTwoCalls == OracleCalls <= MAX_RETRIEVAL_LOOPS + 2

\* C5 as amended: one run makes at most MAX_RETRIEVAL_LOOPS local retrieval calls
\* and at most one synthesis call; gradings, rewritings and remote retrievals come
\* on top of these.
C5_LocalAndSynthesisBounded ==
    /\ tlog.local <= MAX_RETRIEVAL_LOOPS
    /\ tlog.synth <= 1
    /\ Runs("retrieve") <= MAX_RETRIEVAL_LOOPS

C5_Witness ==
    /\ pc = "END"
    /\ tlog.local = MAX_RETRIEVAL_LOOPS
    /\ tlog.synth = 1
    /\ OracleCalls > MAX_RETRIEVAL_LOOPS + 2

\* between the router's return and the end of the turn
InLoop == pc \in {"assessment_tool", "retrieve", "grade_loop", "web_search", "summarizer"}

\* C6: within a turn used_web_search never goes back to false, and once it is
\* true the decision go_web is not taken and web_search is not run again.
C6_RemoteFallbackOnce ==
    [][ (InLoop /\ used_web_search) => (used_web_search' /\ pc' # "web_search") ]_vars

\* C6 is refuted where web_search is about to run with used_web_search already true.
C6_Witness == pc = "web_search" /\ used_web_search /\ tlog.web >= 1

EmergencyAnswered == last.op = "process_answer" /\ HasEmergency(last.answer)

\* the last call returned continue=False, CRITICAL and the crisis-hotline message
PreEmpted == ~last.cont /\ last.risk = "critical" /\ last.msg = "crisis_hotline"

\* C1: for a text naming an emergency keyword, _assess_risk_realtime returns CRITICAL
\* with the crisis-hotline message whatever the oracle would reply and whether or not
\* one is configured, and it does not ask the oracle; so did the call that classified
\* the last answer.
C1_KeywordBeatsOracle ==
    HasEmergency(last.answer) =>
        /\ \A hasLlm \in BOOLEAN, reply \in RiskReplies :
             \E r \in {_assess_risk_realtime(current_session, last.answer, hasLlm, reply)} :
                r.level = "critical" /\ r.msg = "crisis_hotline" /\ ~r.asked
        /\ last.asked.checked =>
             last.risk = "critical" /\ last.msg = "crisis_hotline" /\ ~last.asked.risk

C1_Witness ==
    llm /\ EmergencyAnswered /\ last.asked.checked /\ last.risk = "critical"

\* C2 as stated: every process_answer call whose answer names an emergency keyword
\* returns continue=False, CRITICAL and the crisis message, at any question.
C2_AnyAnswerPreEmpts == EmergencyAnswered => PreEmpted

\* the questions whose answers process_answer classifies: the one flagged important
\* (the chief complaint) and the dynamic followup questions
Classified(question) == question.important \/ question.field.name = "followup"

\* C2, amended: an answer naming an emergency keyword pre-empts the interview when it
\* answers the chief-complaint question or a dynamic followup question: the call returns
\* continue=False, CRITICAL and the crisis message, the session is marked critical and
\* the loop ends. At every other question the answer is only validated and stored, and
\* the call does not return CRITICAL.
C2_ClassifiedAnswerPreEmpts ==
    EmergencyAnswered =>
        IF Classified(last.question)
        THEN /\ PreEmpted
             /\ current_session.risk_level = "critical"
             /\ current_session.end_time = "set"
             /\ ui.phase = "done"
        ELSE /\ ~last.asked.checked
             /\ last.risk # "critical"
             /\ last.cont

C2_Witness ==
    /\ EmergencyAnswered
    /\ last.question.field.name = "followup"
    /\ PreEmpted
    /\ ui.phase = "done"

\* C3: an answer to the chief-complaint question that names an emergency keyword makes
\* process_answer return continue=False, CRITICAL and the crisis message; the followup
\* oracle is not consulted in that call, the session is saved with risk_level critical,
\* and the duration and severity questions are never shown.
C3_ChiefComplaintShortCircuit ==
    (EmergencyAnswered /\ last.question.field.name = "chief_complaint") =>
        /\ PreEmpted
        /\ ~last.asked.followup
        /\ ~last.asked.risk
        /\ saved_session.saved
        /\ saved_session.data = current_session
        /\ saved_session.data.risk_level = "critical"
        /\ ui.shown \cap {"symptom_duration", "symptom_severity", "followup"} = {}
        /\ current_session.symptom_duration = <<>>
        /\ current_session.symptom_severity = 0
        /\ ui.phase = "done"

C3_Witness ==
    /\ llm
    /\ EmergencyAnswered
    /\ last.question.field.name = "chief_complaint"
    /\ saved_session.saved

\* C8: in every state of an interview, whatever the followup oracle replies,
\* followup_count is at most MAX_FOLLOWUP_ROUNDS, and it counts the recorded answers.
C8_FollowupBound ==
    /\ current_session.followup_count <= MAX_FOLLOWUP_ROUNDS
    /\ Len(current_session.followup_qa) = current_session.followup_count

C8_Witness ==
    /\ current_session.followup_count = MAX_FOLLOWUP_ROUNDS
    /\ current_session.current_stage = "followup"
    /\ current_session.current_followup_question = NoQuestion

\* C9 as stated: an interview whose user keeps answering always reaches ASSESSMENT.
C9_AlwaysReachesAssessment ==
    (ui.phase = "asking") ~> (current_session.current_stage = "assessment" \/ ui.quit)

\* the question being asked, if any, has an answer process_answer does not reject
ValidAnswerExists ==
    LET question == get_current_question(current_session, current_question_index)
    IN  (ui.phase = "asking" /\ question # NoQuestion) =>
            \E answer \in Answers(question) :
                \E R \in {process_answer(current_user, current_session, current_question_index,
                                        saved_profile, saved_session, llm, answer,
                                        "LOW", "decline", "label")} :
                    R.msg # "invalid_answer"

\* C9, amended: whatever the oracles reply, every question asked has a valid answer,
\* and an interview whose user keeps answering (does not quit)
\* reaches stage ASSESSMENT or ends at the critical exit (an emergency keyword, or a
\* CRITICAL risk classification, in the chief complaint or a followup answer), where
\* the session keeps the stage it was in.
C9_ReachesAssessmentOrCriticalExit ==
    /\ []ValidAnswerExists
    /\ (ui.phase = "asking") ~>
          \/ current_session.current_stage = "assessment"
          \/ current_session.risk_level = "critical" /\ ui.phase = "done"
          \/ ui.quit

C9_Witness ==
    /\ ui.phase = "done"
    /\ ~ui.quit
    /\ current_session.current_stage = "assessment"
    /\ current_session.followup_count = MAX_FOLLOWUP_ROUNDS

\* the symptom branch has entered ASSESSMENT (never after a critical exit)
SymptomAssessment ==
    /\ current_session.current_stage = "assessment"
    /\ current_session.consultation_type = "symptom_consultation"
    /\ current_session.risk_level # "critical"

\* both fixed questions were shown and validly answered
FixedAnswered ==
    /\ {"symptom_duration", "symptom_severity"} \subseteq ui.shown
    /\ InSeq(current_session.symptom_duration, QUESTIONS("followup")[1].options)
    /\ current_session.symptom_severity \in 1..10

\* C10 as stated: whenever the symptom branch enters ASSESSMENT, duration and severity
\* have been asked and validly answered.
C10_FixedQuestionsBeforeAssessment == SymptomAssessment => FixedAnswered

\* C10, amended: when the symptom branch enters ASSESSMENT, duration and severity have
\* been asked and validly answered exactly if at least one dynamic followup question
\* was asked; if the followup oracle declines at its first consultation, or none is
\* configured, the interview enters ASSESSMENT straight from the chief complaint and
\* neither question is shown.
C10_FixedQuestionsAfterFollowup ==
    SymptomAssessment =>
        IF current_session.followup_count > 0
        THEN FixedAnswered
        ELSE /\ ui.shown \cap {"symptom_duration", "symptom_severity"} = {}
             /\ current_session.symptom_duration = <<>>
             /\ current_session.symptom_severity = 0

C10_Witness ==
    /\ SymptomAssessment
    /\ current_session.followup_count = 1
    /\ FixedAnswered

\* ---------------------------------------------------------------- C11

\* the medium-risk keywords in the chief complaint and the followup answers
MediumKeywordsSaid ==
    KeywordsIn(MEDIUM_RISK_KEYWORDS,
               current_session.chief_complaint \o AnswersText(current_session.followup_qa))

\* C11: once the symptom branch has been assessed, a severity of 7 or more gives
\* riskLevel MEDIUM with the referral flag set whatever the keywords; the level is
\* MEDIUM exactly if a medium keyword was said or the severity is 7 or more, and LOW
\* (no referral) exactly if no medium keyword was said and the severity is below 7.
C11_SeverityForcesMedium ==
    SymptomAssessment =>
        /\ current_session.risk_level \in {"medium", "low"}
        /\ current_session.symptom_severity >= 7 =>
               current_session.risk_level = "medium" /\ current_session.referral_suggested
        /\ current_session.risk_level = "low" <=>
               (MediumKeywordsSaid = <<>> /\ current_session.symptom_severity < 7)
        /\ current_session.referral_suggested <=> current_session.risk_level = "medium"

\* a complaint and followup answers without any medium keyword, then severity 8
C11_Witness ==
    /\ SymptomAssessment
    /\ last.question.field.name = "symptom_severity"
    /\ current_session.chief_complaint = PlainText
    /\ MediumKeywordsSaid = <<>>
    /\ current_session.symptom_duration # <<>>
    /\ current_session.symptom_severity = 8
    /\ current_session.risk_level = "medium"
    /\ current_session.referral_suggested

\* ---------------------------------------------------------------- C12, C13

\* this step is a process_answer call on a question: two entries join the log
Answered == current_session'.conversation = current_session.conversation + 2

\* this step is a process_answer call that rejects the answer
RejectedStep == Answered /\ last'.msg = "invalid_answer"

\* the question on offer did not move in this step
SameQuestion ==
    /\ current_question_index' = current_question_index
    /\ current_session'.current_stage = current_session.current_stage
    /\ get_current_question(current_session', current_question_index')
           = get_current_question(current_session, current_question_index)

\* C12: a rejected answer leaves current_question_index, current_stage and the question
\* get_current_question returns as they were; and when the answer just rejected is
\* submitted again, it is rejected again, to the same question, with the same re-prompt.
C12_SameRepromptTwice ==
    [][ /\ RejectedStep => SameQuestion
        /\ (Answered /\ last.op = "process_answer" /\ last.msg = "invalid_answer"
                /\ last'.answer = last.answer)
              => /\ last'.msg = "invalid_answer"
                 /\ last'.question = last.question
                 /\ ReturnedText(last') = ReturnedText(last)
                 /\ SameQuestion ]_vars

\* "170" was rejected twice in a row as an age, right after the gender was accepted
C12_Witness ==
    /\ current_session.current_stage = "basic_info"
    /\ current_question_index = 1
    /\ get_current_question(current_session, current_question_index).field.name = "age"
    /\ last.msg = "invalid_answer"
    /\ last.answer = <<"1", "7", "0">>
    /\ last.question.field.name = "age"
    /\ ui.reprompts = 2
    /\ current_session.conversation = 6

\* C13 as stated: a rejected answer changes no state at all, the conversation log
\* included.
C13_InvalidMutatesNothing ==
    [][ RejectedStep =>
          /\ current_session' = current_session
          /\ current_user' = current_user
          /\ current_question_index' = current_question_index
          /\ saved_profile' = saved_profile
          /\ saved_session' = saved_session ]_vars

\* C13, amended: a rejected answer changes nothing but the conversation log, which
\* gets the question and the rejected answer appended; every other field of the
\* session, the profile, the question index and the files on disk stay as they were.
C13_InvalidOnlyLogged ==
    [][ RejectedStep =>
          /\ current_session' = [current_session EXCEPT !.conversation = @ + 2]
          /\ current_user' = current_user
          /\ current_question_index' = current_question_index
          /\ saved_profile' = saved_profile
          /\ saved_session' = saved_session ]_vars

\* a severity out of range was rejected, with the complaint and a followup answer
\* already in the session
C13_Witness ==
    /\ last.op = "process_answer"
    /\ last.msg = "invalid_answer"
    /\ last.question.field.name = "symptom_severity"
    /\ current_session.current_stage = "followup"
    /\ current_session.followup_count >= 1
    /\ current_session.symptom_severity = 0
    /\ current_question_index = 1

\* ---------------------------------------------------------------- C14

\* gender set, age, height and weight positive
ProfileComplete ==
    /\ current_user.gender # <<>>
    /\ current_user.age > 0
    /\ current_user.height > 0
    /\ current_user.weight > 0

\* C14: right after start_session the stage is CONSULTATION_TYPE if and only if the
\* profile is complete (gender set, age, height and weight positive) and BASIC_INFO
\* otherwise, never MEDICAL_HISTORY or any other stage; the question index is 0.
C14_StartStage ==
    last.op = "start_session" =>
        /\ current_question_index = 0
        /\ current_session.current_stage \in {"consultation_type", "basic_info"}
        /\ current_session.current_stage = "consultation_type" <=> ProfileComplete

\* a returning user with a complete profile starts at the consultation type
C14_Witness ==
    /\ last.op = "start_session"
    /\ ProfileComplete
    /\ current_session.current_stage = "consultation_type"
    /\ current_question_index = 0
    /\ get_current_question(current_session, current_question_index).field.name
           = "consultation_type"

\* ---------------------------------------------------------------- C15

\* the last call answered the consultation-type question with the health-management
\* option
ChoseHealthManagement ==
    /\ last.op = "process_answer"
    /\ last.question.field.name = "consultation_type"
    /\ _validate_answer(last.question, last.answer) = VText(HEALTH_MANAGEMENT_OPTION)

\* C15: choosing health management moves the session from CONSULTATION_TYPE straight to
\* ASSESSMENT with riskLevel LOW and the placeholder chief complaint, persists the
\* session and returns continue = False; no symptom or followup question is ever shown,
\* and the call asks neither the risk classifier nor the followup oracle.
C15_HealthManagementShortCut ==
    /\ ChoseHealthManagement =>
          /\ current_session.consultation_type = "health_management"
          /\ ~last.cont
          /\ last.risk = "low"
          /\ ~last.asked.checked /\ ~last.asked.risk /\ ~last.asked.followup
          /\ saved_session.saved
    /\ (ChoseHealthManagement \/ current_session.consultation_type = "health_management") =>
          /\ current_session.current_stage = "assessment"
          /\ current_session.risk_level = "low"
          /\ current_session.chief_complaint = <<"jian", "kang", "guan", "li", "zi", "xun">>
          /\ saved_session = Saved(current_session)
          /\ current_session.followup_count = 0
          /\ current_session.followup_qa = <<>>
          /\ current_session.llm_risk_reason = ""
          /\ ui.shown \cap {"chief_complaint", "followup", "symptom_duration",
                             "symptom_severity"} = {}

\* with an oracle configured, the user has just chosen health management
C15_Witness ==
    /\ llm
    /\ ChoseHealthManagement
    /\ ui.phase = "evaluation"
    /\ current_session.current_stage = "assessment"
    /\ current_session.risk_level = "low"
    /\ saved_session.saved

\* ---------------------------------------------------------------- C16

\* the last call asked the risk oracle, which replied HIGH
HighReplied ==
    last.op = "process_answer" /\ last.asked.risk /\ last.reply = "HIGH"

\* the entry _llm_risk_assessment leaves in risk_keywords_found for a HIGH reply
HighMarker == <<"AI", "high", "risk">>

\* among the results of the realtime check, only CRITICAL ends the interview
OnlyCriticalTerminates ==
    (last.op = "process_answer" /\ last.asked.checked) =>
        /\ last.cont <=> last.risk # "critical"
        /\ current_session.end_time # "" <=> last.risk = "critical"

\* C16 as stated: only CRITICAL terminates; after a HIGH reply of the oracle the HIGH
\* result is in the session, process_answer returned continue = True and the next
\* question is on offer.
C16_HighRecordedNextQuestion ==
    /\ OnlyCriticalTerminates
    /\ HighReplied =>
          /\ last.cont
          /\ InSeq(HighMarker, current_session.risk_keywords_found)
          /\ get_current_question(current_session, current_question_index) # NoQuestion

\* C16, amended: only CRITICAL terminates; after a HIGH reply process_answer returned
\* continue = True and the interview goes on, with the next question or, when no
\* followup question was triggered, with the final assessment made in the same call.
\* The HIGH result is kept as the oracle's reason and as a marker in
\* risk_keywords_found, never as the risk level, and a final assessment that finds
\* MEDIUM replaces the marker by the medium keywords.
C16_HighContinues ==
    /\ OnlyCriticalTerminates
    /\ HighReplied =>
          /\ last.cont
          /\ ui.phase = "asking" \/ ui.quit
          /\ current_session.risk_level \notin {"critical", "high"}
          /\ current_session.llm_risk_reason = "reason"
          /\ IF current_session.current_stage = "assessment"
             THEN /\ get_current_question(current_session, current_question_index) = NoQuestion
                  /\ IF current_session.risk_level = "medium"
                     THEN current_session.risk_keywords_found = MediumKeywordsSaid
                     ELSE current_session.risk_keywords_found = <<HighMarker>>
             ELSE /\ get_current_question(current_session, current_question_index) # NoQuestion
                  /\ current_session.risk_keywords_found = <<HighMarker>>

\* the oracle called a followup answer HIGH and the interview asks its next question
C16_Witness ==
    /\ HighReplied
    /\ last.question.field.name = "followup"
    /\ last.cont
    /\ ui.phase = "asking"
    /\ current_session.current_stage = "followup"
    /\ current_session.risk_keywords_found = <<HighMarker>>
    /\ get_current_question(current_session, current_question_index) # NoQuestion

\* ---------------------------------------------------------------- C17

\* the last call asked the risk oracle, which raised or replied something that is no
\* JSON object with a risk level
OracleFailed ==
    last.op = "process_answer" /\ last.asked.risk /\ last.reply \in {"raise", "malformed"}

\* C17: when the answer names no emergency keyword and the risk oracle raises or
\* replies malformed JSON, the classifier returns LOW with no message and the interview
\* goes on: the call returns continue = True with no risk message, the session is not
\* ended, and the loop is at its next step.
C17_OracleFailureIsLow ==
    /\ OracleFailed =>
          /\ ~HasEmergency(last.answer)
          /\ last.cont
          /\ last.risk \in {None, "low", "medium"}
          /\ last.msg \notin {"crisis_hotline", "go_to_emergency_room",
                               "see_a_doctor_within_24h"}
          /\ current_session.end_time = ""
          /\ current_session.risk_level # "critical"
          /\ ui.phase = "asking" \/ ui.quit
    /\ (llm /\ current_session.current_stage # "none") =>
          \A reply \in {"raise", "malformed"} :
             LET r == _assess_risk_realtime(current_session, PlainText, llm, reply)
             IN  r.level = "low" /\ r.msg = None /\ r.asked /\ r.session = current_session

\* the oracle raised on the chief complaint and the interview went on
C17_Witness ==
    /\ OracleFailed
    /\ last.reply = "raise"
    /\ last.question.field.name = "chief_complaint"
    /\ last.cont
    /\ current_session.llm_risk_reason = ""
    /\ current_session.end_time = ""
    /\ ui.phase = "asking"

\* ---------------------------------------------------------------- C18

\* process_answer has returned CRITICAL
CriticalReturned == last.op = "process_answer" /\ last.risk = "critical"

\* what one more process_answer call with a plain answer would return
OneMoreCall ==
    process_answer(current_user, current_session, current_question_index, saved_profile,
                   saved_session, llm, PlainText, "LOW", "decline", "label")

\* C18 as stated: once process_answer has returned CRITICAL, get_current_question
\* offers no question, and a later process_answer call asks nothing and leaves the
\* session, the index and the profile as they are.
C18_CriticalIsTerminal ==
    CriticalReturned =>
        /\ get_current_question(current_session, current_question_index) = NoQuestion
        /\ ~OneMoreCall.cont
        /\ OneMoreCall.session = current_session
        /\ OneMoreCall.idx = current_question_index
        /\ OneMoreCall.user = current_user

\* C18, amended: once process_answer has returned CRITICAL, run_health_advisor saves
\* the session and returns: no further question is shown, no further call is made and
\* the session stays as the critical exit left it. The engine itself is not terminal:
\* stage and index are where they were, get_current_question still returns the
\* question just answered, and one more process_answer call would be processed like
\* any other and change the session.
C18_CriticalEndsTheLoop ==
    /\ [](CriticalReturned =>
            /\ ui.phase = "done"
            /\ ~last.cont
            /\ current_session.risk_level = "critical"
            /\ current_session.end_time # ""
            /\ saved_session = Saved(current_session)
            /\ get_current_question(current_session, current_question_index)
                   = last.question
            /\ OneMoreCall.session # current_session)
    /\ [][CriticalReturned =>
            /\ current_session' = current_session
            /\ current_question_index' = current_question_index
            /\ ui' = ui
            /\ last' = last]_vars

\* the second dynamic followup answer named an emergency keyword
C18_Witness ==
    /\ CriticalReturned
    /\ last.question.field.name = "followup"
    /\ current_session.current_stage = "followup"
    /\ current_session.followup_count = 2
    /\ current_session.current_followup_question # NoQuestion
    /\ ui.phase = "done"

\* ---------------------------------------------------------------- C19

\* the decision grade_loop takes in this step: it synthesised (ready), it rewrote the
\* query (retry), or it did neither (go_web)
DecidesReady == tlog'.synth = tlog.synth + 1
DecidesRetry == tlog'.rewrite = tlog.rewrite + 1
DecidesGoWeb == ~DecidesReady /\ ~DecidesRetry

\* a node ran to its end in this step and the graph took an edge
NodeStep == InNode /\ pc' # pc /\ pc' # "aborted"

\* C19: every step of a turn follows the transition table: router goes to
\* assessment_tool iff the mode is assessment and to retrieve otherwise,
\* assessment_tool to retrieve, retrieve to grade_loop, grade_loop to summarizer iff
\* its decision is ready, to web_search iff it is go_web and to retrieve iff it is
\* retry, web_search to grade_loop, summarizer to END; assessment_tool and summarizer
\* run at most once per turn.
C19_TransitionTable ==
    /\ [](Runs("assessment_tool") <= 1 /\ Runs("summarizer") <= 1)
    /\ [][NodeStep =>
            CASE pc = "router" ->
                   pc' = IF mode' = "assessment" THEN "assessment_tool" ELSE "retrieve"
              [] pc = "assessment_tool" -> pc' = "retrieve"
              [] pc = "retrieve" -> pc' = "grade_loop"
              [] pc = "grade_loop" ->
                   /\ pc' \in {"summarizer", "web_search", "retrieve"}
                   /\ pc' = "summarizer" <=> DecidesReady
                   /\ pc' = "web_search" <=> DecidesGoWeb
                   /\ pc' = "retrieve" <=> DecidesRetry
              [] pc = "web_search" -> pc' = "grade_loop"
              [] OTHER -> pc' = "END"]_vars

\* grade_loop rewrote the query with budget left, and the graph is at web_search
C19_RetryRoutedToWeb ==
    /\ pc = "web_search"
    /\ Last(tlog.trace) = "grade_loop"
    /\ Last(tlog.grades) = "no"
    /\ tlog.rewrite >= 1
    /\ loop_step < MAX_RETRIEVAL_LOOPS
    /\ ~used_web_search

\* ---------------------------------------------------------------- C20

\* the turn was cut off by an exception of the language oracle: raised by grading,
\* rewriting or synthesis in grade_loop, or by the tool-call reply in assessment_tool
OracleCutOff ==
    /\ pc = "aborted"
    /\ tlog.cause = "oracle"
    /\ Last(tlog.trace) \in {"grade_loop", "assessment_tool"}

\* C20: a failure of the language oracle at a call site of the turn is caught and
\* replaced by its fallback, so no turn is cut off by one and every turn in which
\* the oracle failed still goes on to summarizer and a final text.
C20_OracleFailureFallsBack == ~OracleCutOff

\* the grader raised on the first documents: the turn is over without a final text
C20_CutOffByGrader ==
    /\ OracleCutOff
    /\ tlog.trace = <<"router", "retrieve", "grade_loop">>
    /\ tlog.grade = 1 /\ tlog.synth = 0 /\ tlog.rewrite = 0
    /\ Runs("summarizer") = 0
    /\ final_answer # "final_text"

\* ---------------------------------------------------------------- C21

\* the router of this turn has finished and no other node has run yet
RouterDone == InNode /\ tlog.trace = <<"router">>

\* C21: when the router of a turn has finished, no field of the turn state holds a
\* value written during an earlier turn: tool_output, rag_output and final_answer are
\* as in a new state, documents, loop_step and used_web_search are reset, and mode is
\* the mode of this turn's message.
C21_TurnStateFresh ==
    RouterDone =>
        /\ tool_output = <<>>
        /\ rag_output = ""
        /\ final_answer = None
        /\ documents = <<>>
        /\ loop_step = 0
        /\ ~used_web_search
        /\ mode = detect_mode(messages[1])

\* a science turn after an assessment turn on the same thread: the router has run and
\* the earlier turn's tool output, synthesis and final text are still in the state
C21_StaleTurnState ==
    /\ RouterDone
    /\ mode = "science"
    /\ tool_output # <<>>
    /\ rag_output # ""
    /\ final_answer = "final_text"
    /\ documents = <<>> /\ loop_step = 0 /\ ~used_web_search

\* ---------------------------------------------------------------- C22

\* C22: loop_step is 0 when the router has finished, each execution of retrieve adds
\* exactly 1 to it and no other node changes it, so that within a turn it counts the
\* executions of retrieve; it never exceeds MAX_RETRIEVAL_LOOPS, and local retrieval is
\* attempted at most MAX_RETRIEVAL_LOOPS times per turn.
C22_LoopStepCountsRetrieve ==
    /\ [](/\ loop_step \in 0..MAX_RETRIEVAL_LOOPS
          /\ tlog.local <= MAX_RETRIEVAL_LOOPS
          /\ RouterDone => loop_step = 0
          /\ (InNode /\ Runs("router") = 1) => loop_step = Runs("retrieve"))
    /\ [][/\ (pc = "retrieve" /\ pc' = "grade_loop") => loop_step' = loop_step + 1
          /\ loop_step' # loop_step =>
                \/ pc = "retrieve" /\ pc' = "grade_loop"
                \/ pc = "router" /\ loop_step' = 0
                \/ pc' = "idle" /\ loop_step' = 0]_vars

\* the third local retrieval was graded "no": the budget is used up
C22_Witness ==
    /\ pc = "web_search"
    /\ loop_step = MAX_RETRIEVAL_LOOPS
    /\ Runs("retrieve") = MAX_RETRIEVAL_LOOPS
    /\ tlog.local = MAX_RETRIEVAL_LOOPS
    /\ tlog.rewrite = MAX_RETRIEVAL_LOOPS - 1

\* ---------------------------------------------------------------- C23

\* C23: web_search runs only after a failed grading with loop_step at the budget and
\* used_web_search false; it replaces documents by the remote results (or the
\* placeholder) and sets used_web_search; the grading after it leaves loop_step alone
\* and, passed or failed, ends in a synthesis and the summarizer, never in a rewrite
\* or another retrieval.
C23_WebSearchOnceAtBudget ==
    [][/\ (pc = "grade_loop" /\ pc' = "web_search") =>
             /\ Last(tlog'.grades) = "no"
             /\ loop_step >= MAX_RETRIEVAL_LOOPS
             /\ ~used_web_search
       /\ (pc = "web_search" /\ NodeStep) =>
             /\ pc' = "grade_loop"
             /\ used_web_search'
             /\ documents' \in WebResults \cup {<<"search_unavailable">>}
             /\ loop_step' = loop_step
       /\ (pc = "grade_loop" /\ used_web_search /\ NodeStep) =>
             /\ loop_step' = loop_step
             /\ DecidesReady
             /\ pc' = "summarizer"]_vars

\* the grading after a web search failed with budget left: the query was rewritten and
\* the web is searched a second time
C23_SecondWebSearch ==
    /\ pc = "web_search"
    /\ used_web_search
    /\ tlog.web = 1
    /\ tlog.rewrite >= 2
    /\ loop_step < MAX_RETRIEVAL_LOOPS

\* ---------------------------------------------------------------- C24

\* C24: the decision that routes out of grade_loop is the one that execution made:
\* after a synthesis the next node is summarizer, after go_web it is web_search, and
\* after a rewrite of the query it is retrieve, whatever final_answer held before.
C24_RoutedByOwnDecision ==
    [][(pc = "grade_loop" /\ NodeStep) =>
          /\ DecidesReady => pc' = "summarizer"
          /\ DecidesGoWeb => pc' = "web_search"
          /\ DecidesRetry => pc' = "retrieve"]_vars

\* the first grading of a turn failed and the query was rewritten, but the go_web an
\* aborted turn left in final_answer has sent the graph to web_search
C24_StaleDecisionRouted ==
    /\ pc = "web_search"
    /\ tlog.trace = <<"router", "retrieve", "grade_loop">>
    /\ tlog.rewrite = 1
    /\ final_answer = "go_web"
    /\ loop_step = 1

\* ---------------------------------------------------------------- C25

\* the remote search of this turn raised: its placeholder is the document set
SearchFailed ==
    /\ tlog.web >= 1
    /\ used_web_search
    /\ documents = <<"search_unavailable">>

\* C25: a remote search that raises does not stop web_search: documents is exactly the
\* one placeholder, used_web_search is true, and the turn goes on to grade_loop and
\* from there to summarizer and its end, without aborting.
C25_FailedSearchStillAnswers ==
    /\ [](SearchFailed => pc \in {"grade_loop", "summarizer", "END"})
    /\ [][(pc = "web_search" /\ NodeStep) =>
             /\ pc' = "grade_loop"
             /\ used_web_search'
             /\ documents' # <<>> => Len(documents') = 1]_vars

\* the search failed, the placeholder went to the grader, and the grader's call raised
C25_AbortedAfterFailedSearch ==
    /\ SearchFailed
    /\ pc = "aborted"
    /\ tlog.cause = "oracle"
    /\ Last(tlog.trace) = "grade_loop"
    /\ tlog.web = 1

\* ---------------------------------------------------------------- C26

\* assessment_tool has run with tool calls requested by the oracle
ToolsCalled == tlog.requested > 0

\* C26: every tool call the oracle requested has exactly one entry in tool_output,
\* its result or the inline calculation error; a call that fails neither aborts the
\* turn nor hides another call's entry, and no requested call is dropped.
C26_OneEntryPerToolCall ==
    /\ [](ToolsCalled =>
             /\ Len(tool_output) = tlog.requested
             /\ \A i \in 1..Len(tool_output) : tool_output[i] \in {"result", "calc_error"})
    /\ [][(pc = "assessment_tool" /\ pc' = "aborted") => tlog'.requested = 0]_vars

\* two calls were requested, one of them by a name that is no tool: one entry only
C26_CallDropped ==
    /\ pc = "retrieve"
    /\ Last(tlog.trace) = "assessment_tool"
    /\ tlog.requested = 2
    /\ tool_output = <<"result">>

\* ---------------------------------------------------------------- C27

\* C27: the router chooses assessment exactly when the message has no science marker,
\* has a calculation-intent marker, and has a digit or an assessment-keyword score
\* above zero; every other combination is science; the first node follows the mode.
C27_AssessmentNeedsCalcIntent ==
    RouterDone =>
        LET m == messages[1]
            quantified == m.has_numbers \/ m.assessment_score > 0
        IN  /\ mode \in {"assessment", "science"}
            /\ mode = "assessment" <=> (~m.science_marker /\ m.calc_request /\ quantified)
            /\ pc = "assessment_tool" <=> mode = "assessment"
            /\ pc = "retrieve" <=> mode = "science"

\* a calculation request with no digit but an assessment keyword is an assessment
C27_Witness ==
    /\ RouterDone
    /\ mode = "assessment"
    /\ pc = "assessment_tool"
    /\ ~messages[1].has_numbers
    /\ messages[1].assessment_score > 0

\* ---------------------------------------------------------------- C28

\* a turn of a user without identity: "anonymous" or the empty id
AnonymousTurn == pc # "idle" /\ user_id \in {"anonymous", ""}

\* C28: for the user id "anonymous" or the empty id the turn reads and writes no
\* memory: the extractor is not called, the profile store is not read, no record is
\* stored, and health_profile is empty for the whole turn.
C28_AnonymousHasNoMemory ==
    /\ [](AnonymousTurn =>
             /\ tlog.extract = 0
             /\ tlog.load = 0
             /\ health_profile = "")
    /\ [][AnonymousTurn => has_records' = has_records]_vars

\* an anonymous turn ran to its end over a store that holds records
C28_Witness ==
    /\ user_id = "anonymous"
    /\ pc = "END"
    /\ has_records
    /\ health_profile = ""
    /\ tlog.extract = 0
    /\ tlog.load = 0

\* ---------------------------------------------------------------- C29

\* C29: no failure of the extractor or of the profile loader stops the router: it
\* sets mode from the message, resets the turn and goes on to the first node; after a
\* failed load health_profile is empty.
C29_RouterNeverFails ==
    [][(pc = "router" /\ pc' # "router") =>
          /\ pc' = route_after_router(mode')
          /\ mode' = detect_mode(messages[1])
          /\ tlog'.trace = <<"router">>
          /\ tlog'.cause = None]_vars

\* the store raised under load_health_profile: the turn of a known user ended in the
\* router, before any node of the retrieval loop
C29_RouterAborted ==
    /\ pc = "aborted"
    /\ tlog.trace = <<"router">>
    /\ tlog.load = 1
    /\ Known(user_id)

\* ---------------------------------------------------------------- C30

\* process_answer has just accepted an answer to the family_history question
FamilyHistoryAnswered ==
    /\ last.op = "process_answer"
    /\ last.question.field.name = "family_history"
    /\ last.msg # "invalid_answer"

\* what a token of a multi_choice answer stands for: the option of its 1-based index,
\* or the token itself
TokenMeans(options, t) ==
    IF isdigit(t) /\ ToInt(t) >= 1 /\ ToInt(t) <= Len(options) THEN options[ToInt(t)] ELSE t

\* C30: a multi_choice answer is split on the ASCII and the full-width comma and every
\* token is in the result, in order: the option it names by index or by text, or the
\* token itself when it names none, also next to tokens that did match; the answers
\* "wu" and "mei you" give the empty list.
C30_EveryTokenKept ==
    FamilyHistoryAnswered =>
        LET tokens == StripAll(split(last.answer))
        IN  IF last.answer \in {WU, MEIYOU} THEN current_user.family_history = <<>>
            ELSE current_user.family_history =
                     [i \in 1..Len(tokens) |-> TokenMeans(last.question.options, tokens[i])]

\* "1,tong feng": the first option is stored and the free-form entry is gone
C30_FreeFormDiscarded ==
    /\ FamilyHistoryAnswered
    /\ last.answer = <<"1", ",", "tong", "feng">>
    /\ current_user.family_history = << <<"gao", "xue", "ya">> >>

\* ---------------------------------------------------------------- C31

\* no emergency keyword matched, the risk oracle was asked, and its reply is a JSON
\* object naming one of the tiers
WellFormedReply ==
    /\ last.asked.risk
    /\ ~HasEmergency(last.answer)
    /\ last.reply \in {"CRITICAL", "HIGH", "MEDIUM", "LOW"}

\* RiskLevel(value) of a tier's name
TierOf(name) ==
    CASE name = "CRITICAL" -> "critical"
      [] name = "HIGH"     -> "high"
      [] name = "MEDIUM"   -> "medium"
      [] OTHER             -> "low"

\* C31: with no emergency keyword in the answer and a well-formed reply of the oracle,
\* the classifier returns the tier the reply names in risk_level: CRITICAL, HIGH,
\* MEDIUM or LOW.
C31_TierIsTheOneNamed == WellFormedReply => last.tier = TierOf(last.reply)

\* the oracle named MEDIUM and the classifier returned LOW
C31_MediumReturnedAsLow ==
    /\ WellFormedReply
    /\ last.reply = "MEDIUM"
    /\ last.tier = "low"

\* ---------------------------------------------------------------- C32

\* the risk-relevant fields of a session
RiskFields(s) ==
    <<s.risk_level, s.risk_keywords_found, s.referral_suggested, s.llm_risk_reason>>

\* C32: a process_answer step that changes a risk-relevant field saves the session
\* before it returns: between calls the risk fields of the stored session are those of
\* the session in memory, and a session that has ended is stored.
C32_RiskFieldsPersisted ==
    /\ RiskFields(saved_session.data) = RiskFields(current_session)
    /\ ui.phase = "done" => saved_session.saved

\* the oracle replied HIGH: the marker and the reason are in memory, the interview goes
\* on, and nothing of it is stored
C32_HighNotStored ==
    /\ ui.phase = "asking"
    /\ last.op = "process_answer"
    /\ last.reply = "HIGH"
    /\ current_session.risk_keywords_found = << <<"AI", "high", "risk">> >>
    /\ current_session.llm_risk_reason = "reason"
    /\ saved_session.data.risk_keywords_found = <<>>
    /\ saved_session.data.llm_risk_reason = ""

\* ---------------------------------------------------------------- C33

\* C33: the final assessment assigns MEDIUM or LOW and nothing else: once it has run,
\* risk_level is medium or low, also in a session whose realtime check returned HIGH
\* (its marker is overwritten by the medium keywords, or left beside a low level), and
\* a medium level carries the medium keywords that were said and no other.
C33_FinalIsMediumOrLow ==
    SymptomAssessment =>
        /\ current_session.risk_level \in {"medium", "low"}
        /\ last.msg \in {"see_a_doctor_soon", "thank_you_analyzing"} =>
               last.risk = current_session.risk_level
        /\ InSeq(HighMarker, current_session.risk_keywords_found) =>
               current_session.risk_level = "low"
        /\ current_session.risk_level = "medium" =>
               current_session.risk_keywords_found = MediumKeywordsSaid

\* the realtime check returned HIGH earlier in the session; the final assessment found
\* no medium keyword and a severity below 7, and the level is LOW
C33_Witness ==
    /\ SymptomAssessment
    /\ last.question.field.name = "symptom_severity"
    /\ current_session.risk_keywords_found = <<HighMarker>>
    /\ current_session.symptom_severity = 3
    /\ current_session.risk_level = "low"

\* ---------------------------------------------------------------- C34

\* process_answer took the answer to a generated followup question that offers options,
\* and the answer is the 1-based index of one of them
FollowupIndexAnswered ==
    /\ last.op = "process_answer"
    /\ last.question.field.name = "followup"
    /\ last.question.options # <<>>
    /\ isdigit(last.answer)
    /\ ToInt(last.answer) \in 1..Len(last.question.options)

\* C34: a valid 1-based index typed at a generated followup question with options is
\* recorded in followup_qa as the text of the option it selects, not as the digit, so
\* the realtime check and the final assessment read the option's text.
C34_OptionTextRecorded ==
    FollowupIndexAnswered =>
        /\ current_session.followup_qa # <<>>
        /\ Last(current_session.followup_qa).answer =
               last.question.options[ToInt(last.answer)]

\* the user chose the first of three options and followup_qa holds the digit
C34_DigitRecorded ==
    /\ FollowupIndexAnswered
    /\ last.question.options = FollowupOptions
    /\ last.answer = <<"1">>
    /\ Last(current_session.followup_qa).answer = <<"1">>
    /\ Last(current_session.followup_qa).question = last.question.field.n

\* ---------------------------------------------------------------- C35

\* the BASIC_INFO stage is behind: every one of its questions has an accepted answer
BasicInfoDone == current_session.current_stage \notin {"none", "basic_info"}

\* C35: once the BASIC_INFO stage is completed with accepted answers the stored
\* profile is complete, and a start_session for that user begins at
\* CONSULTATION_TYPE; for every accepted value, the bounds of the ranges included.
C35_AcceptedProfileIsComplete ==
    BasicInfoDone =>
        /\ current_user.age \in 0..120
        /\ current_user.height \in 50..250
        /\ current_user.weight \in 20..300
        /\ has_complete_profile(saved_profile)
        /\ start_session(saved_profile, saved_profile, llm, "label").session.current_stage
               = "consultation_type"

\* the age 0 was accepted, the stage is completed, and the stored profile is not
\* complete: the next session starts at BASIC_INFO again
C35_AgeZeroIncomplete ==
    /\ BasicInfoDone
    /\ saved_profile.age = 0
    /\ saved_profile.gender # <<>>
    /\ saved_profile.height = 50
    /\ saved_profile.weight = 300
    /\ start_session(saved_profile, saved_profile, llm, "label").session.current_stage
           = "basic_info"

\* ---------------------------------------------------------------- C36

\* the place of a stage in the order of the interview; 0 before a session exists
StageRank(stage) ==
    CASE stage = "basic_info"        -> 1
      [] stage = "medical_history"   -> 2
      [] stage = "consultation_type" -> 3
      [] stage = "current_symptoms"  -> 4
      [] stage = "followup"          -> 5
      [] stage = "assessment"        -> 6
      [] OTHER                       -> 0

\* process_answer called now, whatever the answer, finds no question and changes nothing
AnswerChangesNothing ==
    \A answer \in {PlainText, EmergencyText, <<"1">>} :
        LET R == process_answer(current_user, current_session, current_question_index,
                                saved_profile, saved_session, llm, answer,
                                "CRITICAL", "ask_text", "label")
        IN  /\ ~R.cont
            /\ R.msg = "no_more_questions"
            /\ R.risk = None
            /\ R.session = current_session
            /\ R.user = current_user
            /\ R.saved_session = saved_session
            /\ R.saved_profile = saved_profile

\* C36: the stage moves only forward in the order BASIC_INFO, MEDICAL_HISTORY,
\* CONSULTATION_TYPE, CURRENT_SYMPTOMS, FOLLOWUP, ASSESSMENT: no call moves
\* current_stage to an earlier stage, and at ASSESSMENT process_answer returns the
\* no-more-questions result and leaves the session as it is.
C36_StageOnlyForward ==
    /\ [][StageRank(current_session'.current_stage)
             >= StageRank(current_session.current_stage)]_vars
    /\ [](current_session.current_stage = "assessment" => AnswerChangesNothing)

\* the assessment was reached through the symptoms and the followup stage
C36_Witness ==
    /\ current_session.current_stage = "assessment"
    /\ current_session.followup_count > 0
    /\ current_session.symptom_duration # <<>>
    /\ current_session.symptom_severity > 0
    /\ current_session.conversation >= 8
    /\ AnswerChangesNothing

\* ---------------------------------------------------------------- C37

\* run_health_advisor has called app.stream for this interview
GraphInvoked == ui.advice \in {"given", "failed"}

\* C37: in advisor mode the graph is invoked only for a session whose final risk level
\* is LOW, or MEDIUM after the user confirmed the offer of preliminary advice; never
\* after a CRITICAL result or a quit, and at most once per interview.
C37_GraphIsRiskGated ==
    /\ [](GraphInvoked =>
             /\ ui.phase = "done"
             /\ ~ui.quit
             /\ last.risk # "critical"
             /\ current_session.end_time = ""
             /\ \/ current_session.risk_level = "low" /\ ui.confirm = "not_asked"
                \/ current_session.risk_level = "medium" /\ ui.confirm = "y")
    /\ [](current_session.risk_level = "critical" => ui.advice = "")
    /\ [][ui.advice # "" => ui'.advice = ui.advice]_vars

\* a medium risk, the user asked for the preliminary advice, the graph was invoked
C37_Witness ==
    /\ GraphInvoked
    /\ current_session.risk_level = "medium"
    /\ current_session.referral_suggested
    /\ ui.confirm = "y"
    /\ ui.phase = "done"

\* ---------------------------------------------------------------- C38

\* process_answer has just accepted an answer to a question of the medical history
HistoryAnswered ==
    /\ last.op = "process_answer"
    /\ last.msg # "invalid_answer"
    /\ last.question.field.name \in {"family_history", "allergies", "chronic_diseases",
                                      "current_medications"}

\* the field of the profile a question of the medical history fills
HistoryField(u, name) ==
    CASE name = "family_history"   -> u.family_history
      [] name = "allergies"        -> u.allergies
      [] name = "chronic_diseases" -> u.chronic_diseases
      [] OTHER                     -> u.current_medications

\* C38: in the MEDICAL_HISTORY stage a validated text answer is stored as the list of
\* that one entry, except the word "wu" (none), which empties the field; a list answer
\* replaces the field as it is; the profile is saved after each such answer.
C38_HistoryStored ==
    HistoryAnswered =>
        LET stored == HistoryField(current_user, last.question.field.name)
            text   == strip(last.answer)
        IN  /\ saved_profile = current_user
            /\ last.question.type = "text" =>
                  stored = IF text = WU THEN <<>> ELSE << text >>
            /\ last.question.type = "multi_choice" =>
                  stored = _validate_answer(last.question, last.answer).list

\* an allergy was named and is stored, and saved, as the one entry of the list
C38_Witness ==
    /\ HistoryAnswered
    /\ last.question.field.name = "allergies"
    /\ last.answer = PlainText
    /\ current_user.allergies = << PlainText >>
    /\ saved_profile.allergies = << PlainText >>
    /\ current_user.family_history # <<>>

====
